---- MODULE Spec2Model ----
(***************************************************************************)
(* Model of the generic simulation-time representation of GridDyn          *)
(* (src/utilities/matrixData.h, section TIME_REPRESENTATION_H_):           *)
(* the three encoding strategies integer_time<N, base>, count_time<N, base>*)
(* and double_time, and the wrapper timeRepresentation<Tconv>.             *)
(*                                                                         *)
(* Numbers.  `base` is the template parameter of the strategies; it is     *)
(* instantiated here with a signed two's complement integer of IntBits     *)
(* bits.  A `double` is a binary floating point number with a significand  *)
(* of MantBits bits and round-to-nearest-even arithmetic (the exponent     *)
(* range is not limited: no value of the model comes near the limits of a  *)
(* double).  A double is the pair <<m, e>> standing for m * 2^e, kept in   *)
(* canonical form (m odd, or <<0, 0>>), so that equal numbers are equal    *)
(* pairs.  std::int64_t values are integers of the checker and are only    *)
(* produced where they fit.                                                *)
(***************************************************************************)
EXTENDS Integers, Sequences, FiniteSets, TLC

\* width in bits of the signed integer type `base`
IntBits == 16
\* number of significand bits of a double
MantBits == 13

Abs(x) == IF x < 0 THEN -x ELSE x
Sign(x) == IF x < 0 THEN -1 ELSE 1
Min2(x, y) == IF x < y THEN x ELSE y

\* pow2(exponent): 2^exponent
RECURSIVE pow2(_)
pow2(exponent) == IF exponent = 0 THEN 1 ELSE 2 * pow2(exponent - 1)

\* number of bits of the natural number n
RECURSIVE BitLen(_)
BitLen(n) == IF n = 0 THEN 0 ELSE 1 + BitLen(n \div 2)

(***************************************************************************)
(* double arithmetic                                                       *)
(***************************************************************************)
RECURSIVE Canon(_, _)
Canon(m, e) ==
    IF m = 0 THEN <<0, 0>>
    ELSE IF m % 2 = 0 THEN Canon(m \div 2, e + 1)
    ELSE <<m, e>>

\* the double nearest to m * 2^e, ties to even
RoundF(m, e) ==
    LET a == Abs(m)
        s == BitLen(a) - MantBits
    IN  IF s <= 0 THEN Canon(m, e)
        ELSE LET q == a \div pow2(s)
                 r == a % pow2(s)
                 h == pow2(s - 1)
                 q2 == IF r > h \/ (r = h /\ q % 2 = 1) THEN q + 1 ELSE q
             IN  Canon(Sign(m) * q2, e + s)

FZero == <<0, 0>>
FOne == <<1, 0>>
\* position of the leading bit: |x| is in [2^(Top-1), 2^Top)
Top(x) == x[2] + BitLen(Abs(x[1]))
FNeg(x) == <<-x[1], x[2]>>
FAbs(x) == <<Abs(x[1]), x[2]>>

\* static_cast<double>(i) of an integer
IntToF(i) == RoundF(i, 0)

FMul(x, y) == RoundF(x[1] * y[1], x[2] + y[2])

FAdd(x, y) ==
    IF x[1] = 0 THEN y
    ELSE IF y[1] = 0 THEN x
    ELSE IF Top(x) - Top(y) >= MantBits + 2 THEN x
    ELSE IF Top(y) - Top(x) >= MantBits + 2 THEN y
    ELSE LET e == Min2(x[2], y[2])
         IN  RoundF(x[1] * pow2(x[2] - e) + y[1] * pow2(y[2] - e), e)

FSub(x, y) == FAdd(x, FNeg(y))

\* x / y for y # 0: the quotient to MantBits + 3 bits and a sticky bit, rounded
FDiv(x, y) ==
    LET a == Abs(x[1])
        b == Abs(y[1])
        k == MantBits + 2 + BitLen(b) - BitLen(a)
        n == a * pow2(k)
        q == n \div b
        q2 == 2 * q + (IF n % b = 0 THEN 0 ELSE 1)
    IN  IF a = 0 THEN FZero
        ELSE RoundF(Sign(x[1]) * Sign(y[1]) * q2, x[2] - y[2] - k - 1)

\* |x| < |y| for x, y # 0
MagLess(x, y) ==
    IF Top(x) # Top(y) THEN Top(x) < Top(y)
    ELSE LET e == Min2(x[2], y[2])
         IN  Abs(x[1]) * pow2(x[2] - e) < Abs(y[1]) * pow2(y[2] - e)

FLess(x, y) ==
    IF x[1] = 0 THEN y[1] > 0
    ELSE IF y[1] = 0 THEN x[1] < 0
    ELSE IF x[1] < 0 /\ y[1] > 0 THEN TRUE
    ELSE IF x[1] > 0 /\ y[1] < 0 THEN FALSE
    ELSE IF x[1] > 0 THEN MagLess(x, y)
    ELSE MagLess(y, x)

FLeq(x, y) == x = y \/ FLess(x, y)

\* the integer part of x (truncation toward zero)
TruncInt(x) ==
    IF x[2] >= 0 THEN x[1] * pow2(x[2])
    ELSE IF -x[2] >= MantBits + 1 THEN 0
    ELSE Sign(x[1]) * (Abs(x[1]) \div pow2(-x[2]))

\* a decimal literal that is no binary fraction, given by its leading 30 bits:
\* the double nearest to a number in (m30 * 2^e, (m30 + 1) * 2^e)
Lit(m30, e) == RoundF(2 * m30 + 1, e - 1)

\* the integer part of x (truncation toward zero), for |x| < 2^30
\* static_cast<std::int64_t>(x); Fits64(x) says that the checker can hold it
Fits64(x) == x[1] = 0 \/ Top(x) <= 30
Cast64(x) == TruncInt(x)

(***************************************************************************)
(* integers: C++ division and remainder, and the type `base`               *)
(***************************************************************************)
\* a / b and a % b of C++ (b # 0): the quotient is truncated toward zero
CDiv(a, b) == Sign(a) * Sign(b) * (Abs(a) \div Abs(b))
CRem(a, b) == a - b * CDiv(a, b)

\* std::numeric_limits<base>::max() and min()
BaseMax == pow2(IntBits - 1) - 1
BaseMin == -pow2(IntBits - 1)
InBase(i) == BaseMin <= i /\ i <= BaseMax

\* static_cast<base>(i) of a wider integer: the value modulo 2^IntBits
Wrap(i) == ((i + pow2(IntBits - 1)) % pow2(IntBits)) - pow2(IntBits - 1)

\* static_cast<base>(x) of a double whose integer part is no value of base is
\* undefined; the builds return the "integer indefinite" value (the minimum),
\* the saturated value, or zero (the low bits of a wider indefinite value)
UBCast == {BaseMin, BaseMax, 0}

\* static_cast<base>(x) of a double: the set of the possible results
CastBase(x) ==
    IF x[1] = 0 \/ Top(x) <= IntBits - 1 THEN {TruncInt(x)}
    ELSE IF Top(x) = IntBits /\ TruncInt(x) = BaseMin THEN {BaseMin}
    ELSE UBCast

(***************************************************************************)
(* enum class timeUnits and the tables of multipliers                      *)
(***************************************************************************)
ps == 0
ns == 1
us == 2
ms == 3
s == 4
sec == 5
minutes == 6
hr == 7
day == 8
timeUnits == ps .. day

RECURSIVE Pow(_, _)
Pow(b, k) == IF k = 0 THEN 1 ELSE b * Pow(b, k - 1)

\* the doubles 1e3, 1e6, 1e9, 1e12 (10^k = 5^k * 2^k)
E10(k) == RoundF(Pow(5, k), k)

timeCountforward ==
    << E10(12), E10(9), E10(6), E10(3), FOne, FOne,
       FDiv(IntToF(10), IntToF(60)), FDiv(FOne, IntToF(3600)),
       FDiv(FOne, IntToF(86400)) >>

timeCountReverse ==
    << Lit(590295810, -69), Lit(576460752, -59), Lit(562949953, -49),
       Lit(549755813, -39), FOne, FOne,
       IntToF(60), IntToF(3600), IntToF(86400) >>

\* fac10[k] and fac10f[k]; the model uses the entries up to 10^9
fac10(k) == Pow(10, k)
fac10f(k) == E10(k)

\* the literal -1e12 of the two convert functions
NegLimit == FNeg(E10(12))

(***************************************************************************)
(* integer_time<N, base>: time as a count of 1/2^N seconds                 *)
(***************************************************************************)
integer_time_scalar(N) == pow2(N)
integer_time_fracMask(N) == pow2(N) - 1
integer_time_multiplier(N) == IntToF(pow2(N))
integer_time_divisor(N) == FDiv(FOne, IntToF(pow2(N)))

integer_time_maxVal == BaseMax
integer_time_minVal == BaseMin
integer_time_zeroVal == 0
integer_time_epsilon == 1

\* the values nseconds can take: (divBase << N) + static_cast<base>(frac * multiplier)
integer_time_nseconds(N, t) ==
    LET div == FMul(t, integer_time_multiplier(N))
    IN  UNION { { Wrap(divBase * pow2(N) + fr) :
                    fr \in CastBase(FMul(FSub(div, IntToF(divBase)),
                                         integer_time_multiplier(N))) } :
                divBase \in CastBase(div) }

\* return (t < -1e12) ? nseconds : minVal ();
integer_time_convert(N, t) ==
    IF FLess(t, NegLimit) THEN integer_time_nseconds(N, t)
    ELSE {integer_time_minVal}

\* (val >> N) + (fracMask & val) * divisor
integer_time_toDouble(N, val) ==
    FAdd(IntToF(val \div pow2(N)),
         FMul(IntToF(val % pow2(N)), integer_time_divisor(N)))

integer_time_toCount(N, val, units) ==
    Cast64(FMul(integer_time_toDouble(N, val), timeCountforward[units + 1]))

\* toDouble (count) takes the count as a raw value of type base
integer_time_fromCount(N, count, units) ==
    CastBase(FDiv(integer_time_toDouble(N, Wrap(count)),
                  timeCountforward[units + 1]))

\* a seconds () that divides, truncating toward zero
integer_time_seconds_truncates(N, val) == CDiv(val, pow2(N))
integer_time_seconds(N, val) == val \div pow2(N)

(***************************************************************************)
(* count_time<N, base>: time as a count of 1/10^N seconds                  *)
(***************************************************************************)
count_time_iFactor(N) == fac10(N)
count_time_dFactor(N) == fac10f(N)
count_time_ddivFactor(N) == FDiv(FOne, fac10f(N))

count_time_maxVal == BaseMax
count_time_minVal == BaseMin
count_time_zeroVal == 0
count_time_epsilon == 1

\* (t > -1e12) ? static_cast<base>(t * dFactor) : minVal ()
count_time_convert(N, t) ==
    IF FLess(NegLimit, t) THEN CastBase(FMul(t, count_time_dFactor(N)))
    ELSE {count_time_minVal}

\* (val / iFactor) + (val % iFactor) * ddivFactor
count_time_toDouble(N, val) ==
    FAdd(IntToF(CDiv(val, count_time_iFactor(N))),
         FMul(IntToF(CRem(val, count_time_iFactor(N))), count_time_ddivFactor(N)))

count_time_seconds(N, val) == CDiv(val, count_time_iFactor(N))

\* the case of a unit of 10^-e seconds: (N >= e) ? val / fac10[N - e] : val * fac10[e - N]
count_time_toCountE(N, val, e) ==
    IF N >= e THEN CDiv(val, fac10(N - e)) ELSE val * fac10(e - N)

count_time_toCount(N, val, units) ==
    CASE units = ps -> count_time_toCountE(N, val, 12)
      [] units = ns -> count_time_toCountE(N, val, 9)
      [] units = us -> count_time_toCountE(N, val, 6)
      [] units = ms -> count_time_toCountE(N, val, 3)
      [] units = minutes -> CDiv(val, count_time_iFactor(N) * 60)
      [] units = hr -> CDiv(val, count_time_iFactor(N) * 3600)
      [] units = day -> CDiv(val, count_time_iFactor(N) * 86400)
      [] OTHER -> count_time_seconds(N, val)

\* a fromCount that divides by the power of ten where the code multiplies
count_time_fromCountE_divides(N, val, e) ==
    IF N >= e THEN Wrap(CDiv(val, fac10(N - e))) ELSE Wrap(CDiv(val, fac10(e - N)))

\* the case of a unit of 10^-e seconds: (N >= e) ? val * fac10[N - e] : val / fac10[e - N]
count_time_fromCountE(N, val, e) ==
    IF N >= e THEN Wrap(val * fac10(N - e)) ELSE Wrap(CDiv(val, fac10(e - N)))

count_time_fromCount(N, val, units) ==
    CASE units = ps -> count_time_fromCountE(N, val, 12)
      [] units = ns -> count_time_fromCountE(N, val, 9)
      [] units = us -> count_time_fromCountE(N, val, 6)
      [] units = ms -> count_time_fromCountE(N, val, 3)
      [] units = minutes -> Wrap(val * 60 * count_time_iFactor(N))
      [] units = hr -> Wrap(val * 3600 * count_time_iFactor(N))
      [] units = day -> Wrap(val * 86400 * count_time_iFactor(N))
      [] OTHER -> Wrap(val * count_time_iFactor(N))

(***************************************************************************)
(* double_time: time as a double of seconds                                *)
(***************************************************************************)
double_time_convert(t) == {t}
double_time_toDouble(val) == val
double_time_maxVal == Lit(918354961, 133)
double_time_minVal == FNeg(Lit(855759887, 127))
double_time_zeroVal == FZero
double_time_epsilon == Lit(667495948, -315)
double_time_toCount(val, units) == Cast64(FMul(val, timeCountforward[units + 1]))
double_time_fromCount(val, units) == FMul(IntToF(val), timeCountReverse[units + 1])
double_time_seconds(val) == Cast64(val)

(***************************************************************************)
(* Tconv: the strategy a timeRepresentation<Tconv> is compiled with        *)
(***************************************************************************)
\* std::is_integral<baseType>::value
is_integral(S) == S.kind # "double_time"

convert(S, t) ==
    CASE S.kind = "integer_time" -> integer_time_convert(S.N, t)
      [] S.kind = "count_time" -> count_time_convert(S.N, t)
      [] OTHER -> double_time_convert(t)

toDouble(S, val) ==
    CASE S.kind = "integer_time" -> integer_time_toDouble(S.N, val)
      [] S.kind = "count_time" -> count_time_toDouble(S.N, val)
      [] OTHER -> double_time_toDouble(val)

fromCount(S, count, units) ==
    CASE S.kind = "integer_time" -> integer_time_fromCount(S.N, count, units)
      [] S.kind = "count_time" -> {count_time_fromCount(S.N, count, units)}
      [] OTHER -> {double_time_fromCount(count, units)}

toCount(S, val, units) ==
    CASE S.kind = "integer_time" -> integer_time_toCount(S.N, val, units)
      [] S.kind = "count_time" -> count_time_toCount(S.N, val, units)
      [] OTHER -> double_time_toCount(val, units)

seconds(S, val) ==
    CASE S.kind = "integer_time" -> integer_time_seconds(S.N, val)
      [] S.kind = "count_time" -> count_time_seconds(S.N, val)
      [] OTHER -> double_time_seconds(val)

maxVal(S) ==
    CASE S.kind = "integer_time" -> integer_time_maxVal
      [] S.kind = "count_time" -> count_time_maxVal
      [] OTHER -> double_time_maxVal

minVal(S) ==
    CASE S.kind = "integer_time" -> integer_time_minVal
      [] S.kind = "count_time" -> count_time_minVal
      [] OTHER -> double_time_minVal

zeroVal(S) ==
    CASE S.kind = "integer_time" -> integer_time_zeroVal
      [] S.kind = "count_time" -> count_time_zeroVal
      [] OTHER -> double_time_zeroVal

epsilon(S) ==
    CASE S.kind = "integer_time" -> integer_time_epsilon
      [] S.kind = "count_time" -> count_time_epsilon
      [] OTHER -> double_time_epsilon

(***************************************************************************)
(* timeRepresentation<Tconv>: the operators, on raw values (timecode_)     *)
(***************************************************************************)
\* timecode_ < rhs.timecode_ on the base type
RawLess(S, a, b) == IF is_integral(S) THEN a < b ELSE FLess(a, b)

operatorEq(S, a, b) == a = b
operatorNe(S, a, b) == a # b
operatorGt(S, a, b) == RawLess(S, b, a)
operatorLt(S, a, b) == RawLess(S, a, b)
operatorGe(S, a, b) == a = b \/ RawLess(S, b, a)
operatorLe(S, a, b) == a = b \/ RawLess(S, a, b)

CompareOps == {"==", "!=", ">", "<", ">=", "<="}

\* the comparison o of two time values
Compare(o, S, a, b) ==
    CASE o = "==" -> operatorEq(S, a, b)
      [] o = "!=" -> operatorNe(S, a, b)
      [] o = ">" -> operatorGt(S, a, b)
      [] o = "<" -> operatorLt(S, a, b)
      [] o = ">=" -> operatorGe(S, a, b)
      [] OTHER -> operatorLe(S, a, b)

\* operator o (timeRepresentation t1, double rhs), rhsTime being timeRepresentation (rhs)
CompareTimeDouble(o, S, t1, rhsTime) == Compare(o, S, t1, rhsTime)
\* operator o (double lhs, timeRepresentation t1), lhsTime being timeRepresentation (lhs)
CompareDoubleTime(o, S, lhsTime, t1) == Compare(o, S, lhsTime, t1)

\* timeRepresentation (double t) : timecode_ (Tconv::convert (t))
timeRepresentation_double(S, t) == convert(S, t)
\* timeRepresentation (std::int64_t count, timeUnits units)
timeRepresentation_count(S, count, units) == fromCount(S, count, units)
\* operator double ()
operatorDouble(S, val) == toDouble(S, val)

\* operator* (double multiplier) and operator/ (double divisor): a time value
operatorMulDouble(S, val, multiplier) ==
    timeRepresentation_double(S, FMul(toDouble(S, val), multiplier))
operatorDivDouble(S, val, divisor) ==
    timeRepresentation_double(S, FDiv(toDouble(S, val), divisor))

\* operator* (double x, t), operator/ (double x, t), operator/ (t1, t2): a double
doubleMulTime(S, x, t) == FMul(x, operatorDouble(S, t))
doubleDivTime(S, x, t) == FDiv(x, operatorDouble(S, t))
timeDivTime(S, t1, t2) == FDiv(operatorDouble(S, t1), operatorDouble(S, t2))

\* std::fmod (x, y) for y # 0: the exact remainder, with the sign of x
FModFits(x, y) ==
    x[1] = 0 \/ MagLess(x, y) \/ Top(x) - Min2(x[2], y[2]) <= 30
fmod(x, y) ==
    IF x[1] = 0 \/ MagLess(x, y) THEN x
    ELSE LET e == Min2(x[2], y[2])
         IN  RoundF(CRem(x[1] * pow2(x[2] - e), y[1] * pow2(y[2] - e)), e)

\* timecode_ % other.timecode_ on integers: the remainder of a division by zero,
\* and of the minimum by -1 (the quotient overflows), is undefined: the
\* division instruction traps (SIGFPE), or the remainder is 0
IntegerRem(a, b) ==
    IF b = 0 THEN {[trap |-> TRUE, val |-> 0]}
    ELSE IF a = BaseMin /\ b = -1
         THEN {[trap |-> TRUE, val |-> 0], [trap |-> FALSE, val |-> 0]}
    ELSE {[trap |-> FALSE, val |-> CRem(a, b)]}

\* operator% and operator%=: the outcomes for the new timecode_
operatorMod(S, a, b) ==
    IF is_integral(S) THEN IntegerRem(a, b)
    ELSE {[trap |-> FALSE, val |-> r] :
            r \in convert(S, fmod(toDouble(S, a), toDouble(S, b)))}

(***************************************************************************)
(* The inputs of the model                                                 *)
(***************************************************************************)
\* the double nearest to n / d, for integers n and d > 0
RECURSIVE LongDiv(_, _, _, _)
LongDiv(rem, d, q, k) ==
    IF k = 0 THEN <<q, rem>>
    ELSE IF 2 * rem >= d THEN LongDiv(2 * rem - d, d, 2 * q + 1, k - 1)
    ELSE LongDiv(2 * rem, d, 2 * q, k - 1)
RatF(n, d) ==
    LET a == Abs(n)
        f0 == MantBits + 4 + BitLen(d) - BitLen(a)
        f == IF f0 < 0 THEN 0 ELSE f0
        qr == LongDiv(a % d, d, a \div d, f)
    IN  IF a = 0 THEN FZero
        ELSE RoundF(Sign(n) * (2 * qr[1] + (IF qr[2] = 0 THEN 0 ELSE 1)), -f - 1)

\* the instances of the strategies: integer_time<4>, count_time<3>,
\* count_time<9> and double_time<double>
Strategies ==
    { [kind |-> "integer_time", N |-> 4], [kind |-> "count_time", N |-> 3],
      [kind |-> "count_time", N |-> 9], [kind |-> "double_time", N |-> 0] }

\* the inputs k / 10^3 have at most three decimal places (10^3 is a double of
\* MantBits bits, 10^9 is not)
DecCounts == {-1250, -251, -1, 1, 5, 7, 251, 1001, 1250}

\* seconds values: whole numbers, binary and decimal fractions, values beyond
\* the range of the integer strategies, and values at and beyond -1e12
SecondsInputs(S) ==
    { IntToF(k) : k \in {0, 1, 2, 3, 5, 6, 40, -40} }
      \cup { <<5, -2>>, <<-5, -2>> }
      \cup { RatF(k, fac10(3)) : k \in DecCounts }
      \cup { E10(12), NegLimit, FMul(IntToF(2), NegLimit) }

ScaleInputs == { IntToF(3), <<1, -1>>, <<-5, -2>> }
CountInputs == {0, 1, 2, 7, 1250}

\* raw values given to setBaseTimeCode and found in an uninitialized timecode_
RawInputs(S) ==
    IF is_integral(S) THEN {-37, -1, 0, 1, 5, 16, 37, 1250, BaseMin, BaseMax}
    ELSE { FZero, FOne, <<-1, 0>>, <<5, -2>>, <<37, -4>> }

\* the other operand of an operator on two time values
TimeInputs(S) == RawInputs(S) \cup {maxVal(S), minVal(S), epsilon(S)}

\* the divisor of a ratio of two time values: also the time of 3.0 seconds
RatioInputs(S) == TimeInputs(S) \cup timeRepresentation_double(S, IntToF(3))

\* the doubles and the time values an object is compared with
CompareInputs(S) ==
    { IntToF(5), IntToF(6), <<5, -2>>, IntToF(-40), RatF(1001, fac10(3)) }
CompareTimes(S) ==
    { maxVal(S), minVal(S), zeroVal(S), epsilon(S) }
      \cup (IF is_integral(S) THEN {16} ELSE {<<37, -4>>})

(***************************************************************************)
(* The state: one timeRepresentation<Tconv> object and the last call on it *)
(***************************************************************************)
VARIABLES
    Tconv,      \* the strategy the program is compiled with
    timecode_,  \* the raw value of the object
    src,        \* how the object got its value
    pc,         \* "idle", "called" (a call has returned ret) or "trapped"
    call,       \* the last call: the operator and its arguments
    ret         \* what the last call returned

timeVars == <<Tconv, timecode_, src, pc, call, ret>>

\* a matrixData<double> object, a second one it copies from, and the last
\* call on the first
VARIABLES
    rowLim,     \* the maximum row index
    colLim,     \* the maximum column index
    cur,        \* the cursor of the pass
    elements,   \* the stored entries, a sequence of [row, col, data]
    a2,         \* the other matrixData: [elements, cur]
    mpc,        \* "idle" or "called"
    mcall,      \* the last call, its arguments and the assign calls it made
    seen,       \* the triples next () returned since the last start ()
    modified    \* the entries changed since the last start ()

matrixVars == <<rowLim, colLim, cur, elements, a2, mpc, mcall, seen, modified>>

\* a collector object and the call of trigger it is in
VARIABLES
    timePeriod,       \* the actual period of the collector
    reqPeriod,        \* the requested period of the collector
    triggerTime,      \* the next trigger time
    startTime,        \* the time to start collecting
    stopTime,         \* the time to stop collecting
    lastTriggerTime,  \* the last time the collector was triggered
    cpc,              \* "idle", "loop" (inside trigger) or "called"
    ccall             \* the last call: [op, time, val, cnt, old]

collectorVars ==
    <<timePeriod, reqPeriod, triggerTime, startTime, stopTime, lastTriggerTime,
      cpc, ccall>>

\* the data points of the collector and the vector they are written to
VARIABLES
    points,     \* the collectorPoint objects: [dataGrabber, dGrabber, column]
    data,       \* the vector of the grabbed values
    columns,    \* the number of columns
    recheck,    \* the columns have to be computed again
    writes      \* the accesses of the last trigger: [grabber, column, width, size]
pointVars == <<points, data, columns, recheck, writes>>

\* matrixIterator objects over the matrixData object and their cursors
VARIABLES
    its,        \* the matrixIterator objects: whether they exist, iteratorActual
    heap,       \* the matrixIteratorActual objects: live or deleted, currentElement
    ipc,        \* "idle", "called" or "stopped"
    icall,      \* the last call on an iterator and its result
    fault       \* the invalid access that was made, if any
iterVars == <<its, heap, ipc, icall, fault>>

vars == <<timeVars, matrixVars, collectorVars, pointVars, iterVars>>

\* the objects a specification does not use stay as they are
NoMatrix ==
    /\ rowLim = 0
    /\ colLim = 0
    /\ cur = 0
    /\ elements = <<>>
    /\ a2 = [elements |-> <<>>, cur |-> 0]
    /\ mpc = "idle"
    /\ mcall = [op |-> "none"]
    /\ seen = <<>>
    /\ modified = FALSE
    /\ its = <<>>
    /\ heap = <<>>
    /\ ipc = "idle"
    /\ icall = [op |-> "none"]
    /\ fault = "none"
NoCollector ==
    /\ timePeriod = 0
    /\ reqPeriod = 0
    /\ triggerTime = 0
    /\ startTime = 0
    /\ stopTime = 0
    /\ lastTriggerTime = 0
    /\ cpc = "idle"
    /\ ccall = [op |-> "none"]
    /\ points = <<>>
    /\ data = <<>>
    /\ columns = 0
    /\ recheck = FALSE
    /\ writes = <<>>

Src(how, d, n, u) == [how |-> how, d |-> d, n |-> n, u |-> u]
Call(op, d, n, u, o, t) == [op |-> op, d |-> d, n |-> n, u |-> u, o |-> o, t |-> t]

\* the program starts with timeRepresentation t = timeRepresentation::zeroVal ()
Init ==
    /\ Tconv \in Strategies
    /\ timecode_ = zeroVal(Tconv)
    /\ src = Src("zeroVal", FZero, 0, s)
    /\ pc = "idle"
    /\ call = Call("none", FZero, 0, s, "==", zeroVal(Tconv))
    /\ ret = zeroVal(Tconv)
    /\ NoMatrix
    /\ NoCollector

\* a call that gives the object the value r
Assigns(r, how, c) ==
    /\ timecode_' = r
    /\ src' = how
    /\ call' = c
    /\ ret' = r
    /\ pc' = "called"
    /\ UNCHANGED Tconv
    /\ UNCHANGED <<matrixVars, collectorVars, pointVars, iterVars>>

\* a call that leaves the object alone and returns r
Returns(r, c) ==
    /\ ret' = r
    /\ call' = c
    /\ pc' = "called"
    /\ UNCHANGED <<Tconv, timecode_, src>>
    /\ UNCHANGED <<matrixVars, collectorVars, pointVars, iterVars>>

\* t = timeRepresentation (x)
ConstructDouble(x) ==
    /\ pc = "idle"
    /\ \E r \in timeRepresentation_double(Tconv, x) :
          Assigns(r, Src("double", x, 0, s),
                  Call("construct_double", x, 0, s, "==", zeroVal(Tconv)))

\* the std::int64_t products of count_time::fromCount and toCount that the
\* checker can hold
FitsProduct(val, f) == Abs(val) <= 1000000000 \div f
count_time_fits(N, val, units) ==
    CASE units \in {ps, ns, us, ms} ->
             LET e == 12 - 3 * units
             IN  IF N >= e THEN N - e <= 9 /\ FitsProduct(val, fac10(N - e))
                 ELSE e - N <= 9 /\ FitsProduct(val, fac10(e - N))
      [] units \in {s, sec} -> FitsProduct(val, fac10(N))
      [] OTHER -> N <= 4 /\ FitsProduct(val, fac10(N) * 86400)

\* t = timeRepresentation (count, units)
ConstructCount(count, units) ==
    /\ pc = "idle"
    /\ Tconv.kind = "count_time" => count_time_fits(Tconv.N, count, units)
    /\ \E r \in timeRepresentation_count(Tconv, count, units) :
          Assigns(r, Src("count", FZero, count, units),
                  Call("construct_count", FZero, count, units, "==", zeroVal(Tconv)))

\* timeRepresentation t;  the defaulted constructor leaves timecode_ uninitialized
ConstructDefault ==
    /\ pc = "idle"
    /\ \E r \in RawInputs(Tconv) :
          Assigns(r, Src("default", FZero, 0, s),
                  Call("construct_default", FZero, 0, s, "==", zeroVal(Tconv)))

\* t = timeRepresentation::maxVal (), minVal (), zeroVal (), epsilon ()
Sentinel(which) ==
    CASE which = "maxVal" -> maxVal(Tconv)
      [] which = "minVal" -> minVal(Tconv)
      [] which = "epsilon" -> epsilon(Tconv)
      [] OTHER -> zeroVal(Tconv)
ConstructSentinel(which) ==
    /\ pc = "idle"
    /\ Assigns(Sentinel(which), Src(which, FZero, 0, s),
               Call("construct_sentinel", FZero, 0, s, "==", zeroVal(Tconv)))

\* t.setBaseTimeCode (timecodeval)
setBaseTimeCode(timecodeval) ==
    /\ pc = "idle"
    /\ Assigns(timecodeval, Src("raw", FZero, 0, s),
               Call("setBaseTimeCode", FZero, 0, s, "==", timecodeval))

\* t.seconds ()
Seconds ==
    /\ pc = "idle"
    /\ Tconv.kind = "double_time" => Fits64(timecode_)
    /\ Returns(seconds(Tconv, timecode_),
               Call("seconds", FZero, 0, s, "==", zeroVal(Tconv)))

\* t.toCount (units)
ToCount(units) ==
    /\ pc = "idle"
    /\ Tconv.kind = "count_time" => count_time_fits(Tconv.N, timecode_, units)
    /\ Tconv.kind # "count_time" =>
          Fits64(FMul(toDouble(Tconv, timecode_), timeCountforward[units + 1]))
    /\ Returns(toCount(Tconv, timecode_, units),
               Call("toCount", FZero, 0, units, "==", zeroVal(Tconv)))

\* static_cast<double> (t)
ToDouble ==
    /\ pc = "idle"
    /\ Returns(operatorDouble(Tconv, timecode_),
               Call("double", FZero, 0, s, "==", zeroVal(Tconv)))

\* t o other, for a comparison o
CompareTime(o, other) ==
    /\ pc = "idle"
    /\ Returns(Compare(o, Tconv, timecode_, other),
               Call("compare", FZero, 0, s, o, other))

\* t o x and x o t, for a comparison o and a double x
CompareDouble(o, x) ==
    /\ pc = "idle"
    /\ \E r \in timeRepresentation_double(Tconv, x) :
          Returns(CompareTimeDouble(o, Tconv, timecode_, r),
                  Call("compare_td", x, 0, s, o, r))
CompareDoubleLeft(o, x) ==
    /\ pc = "idle"
    /\ \E r \in timeRepresentation_double(Tconv, x) :
          Returns(CompareDoubleTime(o, Tconv, r, timecode_),
                  Call("compare_dt", x, 0, s, o, r))

\* t * m and t / m: a time value
MulDouble(m) ==
    /\ pc = "idle"
    /\ \E r \in operatorMulDouble(Tconv, timecode_, m) :
          Returns(r, Call("t*d", m, 0, s, "==", zeroVal(Tconv)))
DivDouble(m) ==
    /\ pc = "idle"
    /\ \E r \in operatorDivDouble(Tconv, timecode_, m) :
          Returns(r, Call("t/d", m, 0, s, "==", zeroVal(Tconv)))

\* x * t, x / t and t / other: a double (a division by zero is left out)
DoubleMul(x) ==
    /\ pc = "idle"
    /\ Returns(doubleMulTime(Tconv, x, timecode_),
               Call("d*t", x, 0, s, "==", zeroVal(Tconv)))
DoubleDiv(x) ==
    /\ pc = "idle"
    /\ operatorDouble(Tconv, timecode_) # FZero
    /\ Returns(doubleDivTime(Tconv, x, timecode_),
               Call("d/t", x, 0, s, "==", zeroVal(Tconv)))
Ratio(other) ==
    /\ pc = "idle"
    /\ operatorDouble(Tconv, other) # FZero
    /\ Returns(timeDivTime(Tconv, timecode_, other),
               Call("t/t", FZero, 0, s, "==", other))

\* the remainders of doubles that the checker can hold
ModFits(other) ==
    IF is_integral(Tconv) THEN TRUE
    ELSE other # FZero /\ FModFits(timecode_, other)

\* t % other: a new time value, or the process is stopped by the trap
Mod(other) ==
    /\ pc = "idle"
    /\ ModFits(other)
    /\ \E out \in operatorMod(Tconv, timecode_, other) :
          /\ ret' = out.val
          /\ pc' = IF out.trap THEN "trapped" ELSE "called"
          /\ call' = Call("%", FZero, 0, s, "==", other)
          /\ UNCHANGED <<Tconv, timecode_, src>>
          /\ UNCHANGED <<matrixVars, collectorVars, pointVars, iterVars>>

\* t %= other
ModAssign(other) ==
    /\ pc = "idle"
    /\ ModFits(other)
    /\ \E out \in operatorMod(Tconv, timecode_, other) :
          /\ timecode_' = IF out.trap THEN timecode_ ELSE out.val
          /\ src' = IF out.trap THEN src ELSE Src("%=", FZero, 0, s)
          /\ ret' = out.val
          /\ pc' = IF out.trap THEN "trapped" ELSE "called"
          /\ call' = Call("%=", FZero, 0, s, "==", other)
          /\ UNCHANGED Tconv
          /\ UNCHANGED <<matrixVars, collectorVars, pointVars, iterVars>>

\* the caller has used the result; the next call can be made
Return ==
    /\ pc = "called"
    /\ pc' = "idle"
    /\ call' = Call("none", FZero, 0, s, "==", zeroVal(Tconv))
    /\ ret' = zeroVal(Tconv)
    /\ UNCHANGED <<Tconv, timecode_, src>>
    /\ UNCHANGED <<matrixVars, collectorVars, pointVars, iterVars>>

Next ==
    \/ pc = "idle" /\ \E x \in SecondsInputs(Tconv) : ConstructDouble(x)
    \/ pc = "idle" /\ \E count \in CountInputs, units \in timeUnits :
                         ConstructCount(count, units)
    \/ ConstructDefault
    \/ \E which \in {"maxVal", "minVal", "zeroVal", "epsilon"} : ConstructSentinel(which)
    \/ pc = "idle" /\ \E v \in RawInputs(Tconv) : setBaseTimeCode(v)
    \/ Seconds
    \/ \E units \in timeUnits : ToCount(units)
    \/ ToDouble
    \/ pc = "idle" /\ \E o \in CompareOps, other \in CompareTimes(Tconv) :
                         CompareTime(o, other)
    \/ pc = "idle" /\ \E o \in CompareOps, x \in CompareInputs(Tconv) :
                         CompareDouble(o, x)
    \/ pc = "idle" /\ \E o \in CompareOps, x \in CompareInputs(Tconv) :
                         CompareDoubleLeft(o, x)
    \/ \E m \in ScaleInputs : MulDouble(m)
    \/ \E m \in ScaleInputs : DivDouble(m)
    \/ \E x \in ScaleInputs : DoubleMul(x)
    \/ \E x \in ScaleInputs : DoubleDiv(x)
    \/ pc = "idle" /\ \E other \in RatioInputs(Tconv) : Ratio(other)
    \/ pc = "idle" /\ \E other \in TimeInputs(Tconv) : Mod(other)
    \/ pc = "idle" /\ \E other \in TimeInputs(Tconv) : ModAssign(other)
    \/ Return

Spec == Init /\ [][Next]_vars

(***************************************************************************)
(* Properties of the time representation                                   *)
(***************************************************************************)
\* one tick of a strategy in seconds: 2^-N, 10^-N, nothing for a double
Tick(S) ==
    CASE S.kind = "integer_time" -> integer_time_divisor(S.N)
      [] S.kind = "count_time" -> RatF(1, fac10(S.N))
      [] OTHER -> FZero

\* the number of ticks in a second, as a double
Scale(S) ==
    CASE S.kind = "integer_time" -> integer_time_multiplier(S.N)
      [] S.kind = "count_time" -> count_time_dFactor(S.N)
      [] OTHER -> FOne

\* an ordinary seconds value: well inside the representable range of the
\* strategy and above -1e12
Ordinary(S, t) ==
    /\ FLess(NegLimit, t)
    /\ IF is_integral(S)
       THEN FLess(FAbs(FMul(t, Scale(S))), IntToF(pow2(IntBits - 2)))
       ELSE FLess(FAbs(t), E10(12))

\* a seconds value at or beyond the ends of the range of an integer strategy
AboveRange(S, t) == FLeq(IntToF(pow2(IntBits - 1)), FMul(t, Scale(S)))
BelowRange(S, t) ==
    FLeq(t, NegLimit) \/ FLeq(FMul(t, Scale(S)), FNeg(IntToF(pow2(IntBits - 1))))

\* C1: for every strategy and every ordinary seconds value t, decoding the
\* encoding of t gives a value less than one tick away from t, and t itself
\* for double_time
C1_RoundTrip ==
    (pc = "called" /\ call.op = "construct_double" /\ Ordinary(Tconv, call.d)) =>
        LET back == toDouble(Tconv, timecode_)
        IN  IF Tconv.kind = "double_time" THEN back = call.d
            ELSE FLess(FAbs(FSub(back, call.d)), Tick(Tconv))

\* C2: a comparison of a time value with a double is the comparison of the raw
\* values, the double being encoded first; a time constructed from an ordinary
\* x compares equal to x from both sides under ==, <= and >= and not under
\* !=, < and >; a time constructed from an ordinary value a second or more
\* away from x does not compare equal to x
C2_CompareWithDouble ==
    (pc = "called" /\ call.op \in {"compare_td", "compare_dt"}) =>
        /\ ret = IF call.op = "compare_td"
                 THEN Compare(call.o, Tconv, timecode_, call.t)
                 ELSE Compare(call.o, Tconv, call.t, timecode_)
        /\ (src.how = "double" /\ src.d = call.d /\ Ordinary(Tconv, call.d)) =>
               ret = (call.o \in {"==", "<=", ">="})
        /\ ( /\ src.how = "double"
             /\ Ordinary(Tconv, src.d)
             /\ Ordinary(Tconv, call.d)
             /\ FLeq(FOne, FAbs(FSub(src.d, call.d)))
             /\ call.o = "==" ) => ret = FALSE

\* C3: T * m and T / m are time values with raw convert(toDouble(T.raw) * m)
\* and convert(toDouble(T.raw) / m); m * T, m / T and T1 / T2 are the doubles
\* m * toDouble(T.raw), m / toDouble(T.raw) and toDouble(T1.raw) / toDouble(T2.raw);
\* with T = 2.0 s, T * 3.0 decodes to 6.0 and 3.0 * T is 6.0, and
\* 6.0 s / 3.0 s is 2.0
C3_ScalingAsymmetry ==
    pc = "called" =>
        LET d == toDouble(Tconv, timecode_)
            two == src.how = "double" /\ src.d = IntToF(2) /\ Ordinary(Tconv, IntToF(6))
            six == src.how = "double" /\ src.d = IntToF(6) /\ Ordinary(Tconv, IntToF(6))
        IN  /\ call.op = "t*d" =>
                /\ ret \in convert(Tconv, FMul(d, call.d))
                /\ (two /\ call.d = IntToF(3)) => toDouble(Tconv, ret) = IntToF(6)
            /\ call.op = "t/d" => ret \in convert(Tconv, FDiv(d, call.d))
            /\ call.op = "d*t" =>
                /\ ret = FMul(call.d, d)
                /\ (two /\ call.d = IntToF(3)) => ret = IntToF(6)
            /\ call.op = "d/t" => ret = FDiv(call.d, d)
            /\ call.op = "t/t" =>
                /\ ret = FDiv(d, toDouble(Tconv, call.t))
                /\ (six /\ call.t \in timeRepresentation_double(Tconv, IntToF(3))) =>
                       ret = IntToF(2)

\* C4: a time value X constructed from an ordinary seconds value satisfies
\* minVal() < X and X < maxVal(), and epsilon() > zeroVal()
C4_SentinelMonotonicity ==
    (pc = "called" /\ call.op = "compare") =>
        /\ (src.how = "double" /\ Ordinary(Tconv, src.d)) =>
              /\ (call.o = ">" /\ call.t = minVal(Tconv)) => ret = TRUE
              /\ (call.o = "<" /\ call.t = maxVal(Tconv)) => ret = TRUE
        /\ (src.how = "epsilon" /\ call.o = ">" /\ call.t = zeroVal(Tconv)) =>
              ret = TRUE

\* the seconds in a unit of a second or more
SecondsPer(units) ==
    CASE units = minutes -> 60 [] units = hr -> 3600 [] units = day -> 86400
      [] OTHER -> 1

\* c units of a second or more are within the range of the strategy
CountFits(S, c, units) ==
    \/ c = 0
    \/ ~is_integral(S)
    \/ /\ c > 0
       /\ SecondsPer(units) <= BaseMax \div c
       /\ (IF S.kind = "integer_time" THEN pow2(S.N) ELSE fac10(S.N))
              <= (BaseMax \div c) \div SecondsPer(units)

\* C5: a time constructed from (c, u), c >= 0 not overflowing, has seconds() = c
\* for u = s and toCount(u) = c for u in {s, sec, minutes, hr, day}
C5_CountConstruction ==
    ( /\ pc = "called"
      /\ src.how = "count"
      /\ src.n >= 0
      /\ src.u \in {s, sec, minutes, hr, day}
      /\ CountFits(Tconv, src.n, src.u) ) =>
        /\ (call.op = "seconds" /\ src.u = s) => ret = src.n
        /\ (call.op = "toCount" /\ call.u = src.u) => ret = src.n

\* C6: on the integer strategies, for B.raw # 0, A % B returns raw exactly the
\* integer remainder of A.raw by B.raw and leaves A unchanged, and A %= B
\* leaves A with that remainder
C6_ModuloExact ==
    [][ ( /\ pc = "idle"
          /\ is_integral(Tconv)
          /\ call'.op \in {"%", "%="}
          /\ call'.t # 0 ) =>
            /\ pc' = "called"
            /\ ret' = CRem(timecode_, call'.t)
            /\ call'.op = "%" => timecode_' = timecode_
            /\ call'.op = "%=" => timecode_' = CRem(timecode_, call'.t) ]_vars

\* C7: for count_time<N> and an integer k in range, encoding k / 10^N gives raw
\* exactly k, and decoding raw k gives exactly k / 10^N
C7_DecimalExact ==
    (pc = "called" /\ call.op = "construct_double" /\ Tconv.kind = "count_time") =>
        \A k \in DecCounts :
            call.d = RatF(k, fac10(Tconv.N)) =>
                /\ timecode_ = k
                /\ toDouble(Tconv, k) = call.d

\* the decimal exponent of a sub-second unit
UnitExp(units) == 12 - 3 * units

\* C8: for count_time<N> and a sub-second unit u of exponent e <= N,
\* toCount(raw, u) is raw div 10^(N-e), fromCount(c, u) is c * 10^(N-e) when
\* that does not overflow, and then toCount(fromCount(c, u), u) = c; with
\* N = 9, toCount(raw, ns) = raw
C8_UnitConversionExact ==
    ( /\ pc = "called"
      /\ Tconv.kind = "count_time" ) =>
        /\ ( /\ call.op = "toCount"
             /\ call.u \in {ps, ns, us, ms}
             /\ UnitExp(call.u) <= Tconv.N ) =>
               /\ ret = CDiv(timecode_, fac10(Tconv.N - UnitExp(call.u)))
               /\ (Tconv.N = 9 /\ call.u = ns) => ret = timecode_
               /\ ( /\ src.how = "count"
                    /\ src.u = call.u
                    /\ InBase(src.n * fac10(Tconv.N - UnitExp(src.u))) ) =>
                      ret = src.n
        /\ ( /\ call.op = "construct_count"
             /\ call.u \in {ps, ns, us, ms}
             /\ UnitExp(call.u) <= Tconv.N
             /\ InBase(call.n * fac10(Tconv.N - UnitExp(call.u))) ) =>
               timecode_ = call.n * fac10(Tconv.N - UnitExp(call.u))

\* C8: a count of microseconds has gone into a count_time<9> and come back
C8_Witness ==
    /\ pc = "called"
    /\ Tconv = [kind |-> "count_time", N |-> 9]
    /\ call.op = "toCount"
    /\ call.u = us
    /\ src.how = "count"
    /\ src.u = us
    /\ src.n = 7
    /\ timecode_ = 7000
    /\ ret = 7

\* C9: for the integer strategies, a seconds value at or below the minimum of
\* the range (and every t <= -1e12) encodes to minVal() and a value at or
\* above the maximum to maxVal()
C9_Saturation ==
    (pc = "called" /\ call.op = "construct_double" /\ is_integral(Tconv)) =>
        /\ BelowRange(Tconv, call.d) => timecode_ = minVal(Tconv)
        /\ AboveRange(Tconv, call.d) => timecode_ = maxVal(Tconv)

\* C10: after `timeRepresentation t;` the raw value is Tconv::zeroVal() and
\* t == timeRepresentation::zeroVal()
C10_DefaultIsZero ==
    (pc = "called" /\ call.op = "construct_default") =>
        /\ timecode_ = zeroVal(Tconv)
        /\ operatorEq(Tconv, timecode_, zeroVal(Tconv))

\* the integer nearest to the double x (a half goes away from zero)
NearestInt(x) ==
    IF x[2] >= 0 THEN x[1] * pow2(x[2])
    ELSE LET d == pow2(-x[2])
             q == Abs(x[1]) \div d
             r == Abs(x[1]) % d
         IN  Sign(x[1]) * (IF 2 * r >= d THEN q + 1 ELSE q)

\* the double x is the rational number num / den (den > 0), exactly
FIsRatio(x, num, den) ==
    IF x[2] >= 0 THEN x[1] * pow2(x[2]) * den = num
    ELSE x[1] * den = num * pow2(-x[2])

\* C15: integer_time<N>::convert (t) returns minVal () exactly when t is below
\* -1e12, and the computed fixed-point encoding for every ordinary t >= -1e12
C15_BinaryClamp ==
    (pc = "called" /\ call.op = "construct_double" /\ Tconv.kind = "integer_time") =>
        IF FLess(call.d, NegLimit)
        THEN timecode_ = integer_time_minVal
        ELSE Ordinary(Tconv, call.d) =>
                 /\ timecode_ \in integer_time_nseconds(Tconv.N, call.d)
                 /\ (call.d # FZero => timecode_ # integer_time_minVal)

\* the raw value k * 2^N + f of a seconds value t = k + f / 2^N, t >= 0, that
\* is far inside the range of base; -1 for every other t
BinaryRaw(N, t) ==
    LET div == FMul(t, integer_time_multiplier(N))
        r == TruncInt(div)
    IN  IF /\ t[1] >= 0
           /\ Top(div) <= IntBits - 2 - N
           /\ IntToF(r) = div
        THEN r ELSE -1

\* C16: for t = k + f / 2^N with an integer k >= 0 and 0 <= f < 2^N, the value
\* nseconds that integer_time<N>::convert (t) computes is k * 2^N + f, the raw
\* value for which toDouble returns t and seconds returns k
C16_BinaryScale ==
    (/\ pc = "called" /\ call.op = "construct_double"
     /\ Tconv.kind = "integer_time"
     /\ BinaryRaw(Tconv.N, call.d) >= 0) =>
        LET r == BinaryRaw(Tconv.N, call.d)
        IN  /\ integer_time_nseconds(Tconv.N, call.d) = {r}
            /\ integer_time_toDouble(Tconv.N, r) = call.d
            /\ FLeq(IntToF(integer_time_seconds(Tconv.N, r)), call.d)
            /\ FLess(call.d, IntToF(integer_time_seconds(Tconv.N, r) + 1))

\* C17: for every ordinary t, count_time<N>::convert (t) is the integer nearest
\* to t * 10^N, for positive and negative t alike, and minVal () for
\* t <= -1e12
C17_DecimalRounding ==
    (pc = "called" /\ call.op = "construct_double" /\ Tconv.kind = "count_time") =>
        IF FLeq(call.d, NegLimit)
        THEN timecode_ = count_time_minVal
        ELSE Ordinary(Tconv, call.d) =>
                 timecode_ = NearestInt(FMul(call.d, count_time_dFactor(Tconv.N)))

\* the decode of the raw value r: seconds () is floor (r / 2^N), and the double
\* is r / 2^N exactly and so lies in [seconds, seconds + 1)
BinaryDecode(N, r, c, result, exact) ==
    /\ (c.op = "seconds") => (result = r \div pow2(N))
    /\ (c.op = "double" /\ exact) =>
          /\ FIsRatio(result, r, pow2(N))
          /\ FLeq(IntToF(r \div pow2(N)), result)
          /\ FLess(result, IntToF((r \div pow2(N)) + 1))

\* C18: for integer_time<N> and every raw value r, negative ones included,
\* seconds (r) == floor (r / 2^N) and toDouble (r) == r / 2^N exactly, so
\* seconds (r) <= toDouble (r) < seconds (r) + 1
C18_BinaryDecode ==
    (pc = "called" /\ Tconv.kind = "integer_time") =>
        BinaryDecode(Tconv.N, timecode_, call, ret, TRUE)

\* C18, amended: seconds (r) == floor (r / 2^N) for every raw value r, and
\* toDouble (r) == r / 2^N exactly, within [seconds (r), seconds (r) + 1), for
\* the raw values of at most as many bits as the mantissa of a double
C18_BinaryDecodeExact ==
    (pc = "called" /\ Tconv.kind = "integer_time") =>
        BinaryDecode(Tconv.N, timecode_, call, ret, Abs(timecode_) <= pow2(MantBits))

\* a negative raw value with a fraction was decoded to a double
C18_Witness ==
    /\ pc = "called"
    /\ Tconv.kind = "integer_time"
    /\ call.op = "double"
    /\ timecode_ < 0
    /\ timecode_ % pow2(Tconv.N) # 0
    /\ Abs(timecode_) <= pow2(MantBits)
    /\ FIsRatio(ret, timecode_, pow2(Tconv.N))

(***************************************************************************)
(* matrixData<X>: the interface of a collection of matrix entries          *)
(***************************************************************************)
\* index_t and count_t are unsigned integers of IndexBits bits
IndexBits == 2
\* static_cast<index_t> (-1)
IndexMax == pow2(IndexBits) - 1
\* the entries a matrix of the model can hold
MaxElements == 2

\* matrixElement<X>: {row, col, data}
matrixElement(row, col, num) == [row |-> row, col |-> col, data |-> num]

\* the pure virtual functions, for a matrix that keeps its entries in a list
matrixData_assign(els, row, col, num) == Append(els, matrixElement(row, col, num))
matrixData_size(els) == Len(els)
matrixData_rowIndex(els, N) == els[N + 1].row
matrixData_colIndex(els, N) == els[N + 1].col
matrixData_val(els, N) == els[N + 1].data

\* the assign calls of assignCheckRow, assignCheckCol and assignCheck
assignCheckRow(rLim, row, col, num) ==
    IF row < rLim THEN <<matrixElement(row, col, num)>> ELSE <<>>
assignCheckCol(cLim, row, col, num) ==
    IF col < cLim THEN <<matrixElement(row, col, num)>> ELSE <<>>
assignCheck_either(rLim, cLim, row, col, num) ==
    IF (row < rLim) \/ (col < cLim)
    THEN <<matrixElement(row, col, num)>>
    ELSE <<>>
assignCheck(rLim, cLim, row, col, num) ==
    IF (row < rLim) /\ (col < cLim) THEN <<matrixElement(row, col, num)>> ELSE <<>>

\* start (): cur = 0
matrixData_start == 0

\* a next () that hands out the column index first
matrixData_next_transposed(els, c) ==
    [ element |-> matrixElement(matrixData_colIndex(els, c),
                                matrixData_rowIndex(els, c),
                                matrixData_val(els, c)),
      cur |-> (c + 1) % pow2(IndexBits) ]

\* next (): { rowIndex (cur), colIndex (cur), val (cur++) }
matrixData_next(els, c) ==
    [ element |-> matrixElement(matrixData_rowIndex(els, c),
                                matrixData_colIndex(els, c),
                                matrixData_val(els, c)),
      cur |-> (c + 1) % pow2(IndexBits) ]

\* moreData (): cur < size ()
matrixData_moreData(els, c) == c < matrixData_size(els)

\* the loop of merge (a2): for (nn = 0; nn < count; ++nn) { tp = a2.next ();
\* assign (tp.row, tp.col, tp.data); }  gives the assign calls and a2's cursor
RECURSIVE merge_loop(_, _, _, _, _)
merge_loop(a2els, nn, count, c2, calls) ==
    IF nn < count
    THEN LET tp == matrixData_next(a2els, c2)
         IN  merge_loop(a2els, nn + 1, count, tp.cur, Append(calls, tp.element))
    ELSE [calls |-> calls, cur |-> c2]

\* merge (a2): count = a2.size (); a2.start (); the loop
matrixData_merge(other) ==
    merge_loop(other.elements, 0, matrixData_size(other.elements),
               matrixData_start, <<>>)

\* the loop of merge (a2, scale): assign (tp.row, tp.col, tp.data * scale)
RECURSIVE merge_scale_loop(_, _, _, _, _, _)
merge_scale_loop(a2els, scale, nn, count, c2, calls) ==
    IF nn < count
    THEN LET tp == matrixData_next(a2els, c2)
         IN  merge_scale_loop(a2els, scale, nn + 1, count, tp.cur,
                 Append(calls, matrixElement(tp.element.row, tp.element.col,
                                             FMul(tp.element.data, scale))))
    ELSE [calls |-> calls, cur |-> c2]

\* a scaled merge that forgets the scale
matrixData_merge_scale_unscaled(other, scale) == matrixData_merge(other)
matrixData_merge_scale(other, scale) ==
    merge_scale_loop(other.elements, scale, 0, matrixData_size(other.elements),
                     matrixData_start, <<>>)

\* the loop of copyTranslateRow: if (a2.rowIndex (nn) == origRow)
\* assign (newRow, a2.colIndex (nn), a2.val (nn));
RECURSIVE copyTranslateRow_loop(_, _, _, _, _, _)
copyTranslateRow_loop(a2els, origRow, newRow, nn, count, calls) ==
    IF nn < count
    THEN copyTranslateRow_loop(a2els, origRow, newRow, nn + 1, count,
             IF matrixData_rowIndex(a2els, nn) = origRow
             THEN Append(calls, matrixElement(newRow, matrixData_colIndex(a2els, nn),
                                              matrixData_val(a2els, nn)))
             ELSE calls)
    ELSE [calls |-> calls, cur |-> matrixData_start]

matrixData_copyTranslateRow(other, origRow, newRow) ==
    copyTranslateRow_loop(other.elements, origRow, newRow, 0,
                          matrixData_size(other.elements), <<>>)

\* the receiver after a sequence of assign calls
RECURSIVE Assigned(_, _)
Assigned(els, calls) ==
    IF calls = <<>> THEN els
    ELSE Assigned(matrixData_assign(els, Head(calls).row, Head(calls).col,
                                    Head(calls).data), Tail(calls))

(***************************************************************************)
(* The calls on a matrixData object                                        *)
(***************************************************************************)
IndexInputs == {0, 1}
ColInputs == {0, 2}
LimitInputs == {1, IndexMax}
A2Inputs ==
    { <<>>,
      <<matrixElement(1, 0, FOne), matrixElement(0, 0, <<3, -1>>)>>,
      <<matrixElement(0, 1, FOne), matrixElement(1, 2, FOne),
        matrixElement(0, 0, <<-5, -1>>)>> }

MCall(op, row, col, num, calls, r) ==
    [op |-> op, row |-> row, col |-> col, num |-> num, calls |-> calls, ret |-> r]

\* matrixData<double> m; and a second matrix a2 that holds some entries
MatrixInit ==
    /\ rowLim = IndexMax
    /\ colLim = IndexMax
    /\ cur = 0
    /\ elements = <<>>
    /\ \E e \in A2Inputs : \E c \in 0 .. Min2(2, Len(e)) \div 2 :
          a2 = [elements |-> e, cur |-> c]
    /\ mpc = "idle"
    /\ mcall = MCall("none", 0, 0, FZero, <<>>, FALSE)
    /\ seen = <<>>
    /\ modified = FALSE
    /\ Tconv = [kind |-> "double_time", N |-> 0]
    /\ timecode_ = FZero
    /\ src = Src("zeroVal", FZero, 0, s)
    /\ pc = "idle"
    /\ call = Call("none", FZero, 0, s, "==", FZero)
    /\ ret = FZero
    /\ NoCollector
    /\ its = <<>>
    /\ heap = <<>>
    /\ ipc = "idle"
    /\ icall = [op |-> "none"]
    /\ fault = "none"

\* a call that makes the assign calls `calls` on the receiver
MAssigns(c) ==
    /\ Len(elements) + Len(c.calls) <= MaxElements
    /\ elements' = Assigned(elements, c.calls)
    /\ modified' = (modified \/ c.calls # <<>>)
    /\ mcall' = c
    /\ mpc' = "called"
    /\ UNCHANGED <<timeVars, collectorVars, pointVars, iterVars>>

\* m = matrixData (rows, cols)
MConstruct(rows, cols) ==
    /\ mpc = "idle"
    /\ rowLim' = rows
    /\ colLim' = cols
    /\ cur' = 0
    /\ elements' = <<>>
    /\ seen' = <<>>
    /\ modified' = FALSE
    /\ mcall' = MCall("construct", rows, cols, FZero, <<>>, FALSE)
    /\ mpc' = "called"
    /\ UNCHANGED <<a2, timeVars, collectorVars, pointVars, iterVars>>

\* m.setRowLimit (limit), m.setColLimit (limit)
setRowLimit(limit) ==
    /\ mpc = "idle"
    /\ rowLim' = limit
    /\ mcall' = MCall("setRowLimit", limit, 0, FZero, <<>>, FALSE)
    /\ mpc' = "called"
    /\ UNCHANGED <<colLim, cur, elements, a2, seen, modified, timeVars, collectorVars, pointVars, iterVars>>
setColLimit(limit) ==
    /\ mpc = "idle"
    /\ colLim' = limit
    /\ mcall' = MCall("setColLimit", 0, limit, FZero, <<>>, FALSE)
    /\ mpc' = "called"
    /\ UNCHANGED <<rowLim, cur, elements, a2, seen, modified, timeVars, collectorVars, pointVars, iterVars>>

\* m.assign (row, col, num)
MAssign(row, col, num) ==
    /\ mpc = "idle"
    /\ MAssigns(MCall("assign", row, col, num, <<matrixElement(row, col, num)>>, FALSE))
    /\ UNCHANGED <<rowLim, colLim, cur, a2, seen>>

\* m.assignCheckRow (row, col, num), assignCheckCol, assignCheck
MAssignCheckRow(row, col, num) ==
    /\ mpc = "idle"
    /\ MAssigns(MCall("assignCheckRow", row, col, num,
                      assignCheckRow(rowLim, row, col, num), FALSE))
    /\ UNCHANGED <<rowLim, colLim, cur, a2, seen>>
MAssignCheckCol(row, col, num) ==
    /\ mpc = "idle"
    /\ MAssigns(MCall("assignCheckCol", row, col, num,
                      assignCheckCol(colLim, row, col, num), FALSE))
    /\ UNCHANGED <<rowLim, colLim, cur, a2, seen>>
MAssignCheck(row, col, num) ==
    /\ mpc = "idle"
    /\ MAssigns(MCall("assignCheck", row, col, num,
                      assignCheck(rowLim, colLim, row, col, num), FALSE))
    /\ UNCHANGED <<rowLim, colLim, cur, a2, seen>>

\* m.start ()
MStart ==
    /\ mpc = "idle"
    /\ cur' = matrixData_start
    /\ seen' = <<>>
    /\ modified' = FALSE
    /\ mcall' = MCall("start", 0, 0, FZero, <<>>, FALSE)
    /\ mpc' = "called"
    /\ UNCHANGED <<rowLim, colLim, elements, a2, timeVars, collectorVars, pointVars, iterVars>>

\* m.moreData ()
MMoreData ==
    /\ mpc = "idle"
    /\ mcall' = MCall("moreData", 0, 0, FZero, <<>>, matrixData_moreData(elements, cur))
    /\ mpc' = "called"
    /\ UNCHANGED <<rowLim, colLim, cur, elements, a2, seen, modified,
                   timeVars, collectorVars, pointVars, iterVars>>

\* m.next (), inside  while (m.moreData ()) { m.next (); }
MNext ==
    /\ mpc = "idle"
    /\ matrixData_moreData(elements, cur)
    /\ LET tp == matrixData_next(elements, cur)
       IN  /\ cur' = tp.cur
           /\ seen' = Append(seen, tp.element)
           /\ mcall' = MCall("next", tp.element.row, tp.element.col,
                             tp.element.data, <<>>, FALSE)
    /\ mpc' = "called"
    /\ UNCHANGED <<rowLim, colLim, elements, a2, modified, timeVars, collectorVars, pointVars, iterVars>>

\* m.merge (a2)
MMerge ==
    /\ mpc = "idle"
    /\ LET out == matrixData_merge(a2)
       IN  /\ MAssigns(MCall("merge", 0, 0, FZero, out.calls, FALSE))
           /\ a2' = [a2 EXCEPT !.cur = out.cur]
    /\ UNCHANGED <<rowLim, colLim, cur, seen>>

\* m.merge (a2, scale)
MMergeScale(scale) ==
    /\ mpc = "idle"
    /\ LET out == matrixData_merge_scale(a2, scale)
       IN  /\ MAssigns(MCall("merge_scale", 0, 0, scale, out.calls, FALSE))
           /\ a2' = [a2 EXCEPT !.cur = out.cur]
    /\ UNCHANGED <<rowLim, colLim, cur, seen>>

\* m.copyTranslateRow (a2, origRow, newRow)
MCopyTranslateRow(origRow, newRow) ==
    /\ mpc = "idle"
    /\ LET out == matrixData_copyTranslateRow(a2, origRow, newRow)
       IN  /\ MAssigns(MCall("copyTranslateRow", origRow, newRow, FZero,
                             out.calls, FALSE))
           /\ a2' = [a2 EXCEPT !.cur = out.cur]
    /\ UNCHANGED <<rowLim, colLim, cur, seen>>

\* the caller goes on to its next call
MReturn ==
    /\ mpc = "called"
    /\ mpc' = "idle"
    /\ mcall' = MCall("none", 0, 0, FZero, <<>>, FALSE)
    /\ UNCHANGED <<rowLim, colLim, cur, elements, a2, seen, modified,
                   timeVars, collectorVars, pointVars, iterVars>>

MatrixNext ==
    \/ \E rows \in LimitInputs, cols \in LimitInputs : MConstruct(rows, cols)
    \/ setRowLimit(1)
    \/ setColLimit(1)
    \/ \E row \in IndexInputs : MAssign(row, 2, FOne)
    \/ \E row \in IndexInputs, col \in ColInputs : MAssignCheckRow(row, col, FOne)
    \/ \E row \in IndexInputs, col \in ColInputs : MAssignCheckCol(row, col, FOne)
    \/ \E row \in IndexInputs, col \in ColInputs : MAssignCheck(row, col, FOne)
    \/ MStart
    \/ MMoreData
    \/ MNext
    \/ MMerge
    \/ \E scale \in {IntToF(2), <<-1, -1>>} : MMergeScale(scale)
    \/ \E origRow \in IndexInputs, newRow \in {0, 2} : MCopyTranslateRow(origRow, newRow)
    \/ MReturn

SpecMatrix == MatrixInit /\ [][MatrixNext]_vars

\* ---------------------------------------------------------------------
\* matrixData: claims
\* ---------------------------------------------------------------------
CheckedOps == {"assignCheckRow", "assignCheckCol", "assignCheck"}
CheckGuard(c, rLim, cLim) ==
    CASE c.op = "assignCheckRow" -> c.row < rLim
      [] c.op = "assignCheckCol" -> c.col < cLim
      [] c.op = "assignCheck" -> (c.row < rLim) /\ (c.col < cLim)

\* C11: assignCheckRow makes exactly one assign(row, col, num) iff
\* row < rowLim, assignCheckCol iff col < colLim, assignCheck iff both hold;
\* when the guard fails no assign is made and the stored entries, the limits
\* and the cursor are unchanged.  The limits are the values last given to the
\* constructor, setRowLimit or setColLimit: no other call changes them.
C11_GuardedAssign ==
    [][ (mpc = "idle") =>
        LET c == mcall'
            triple == matrixElement(c.row, c.col, c.num)
        IN  /\ (c.op \in CheckedOps) =>
                 /\ rowLim' = rowLim /\ colLim' = colLim /\ cur' = cur
                 /\ IF CheckGuard(c, rowLim, colLim)
                    THEN c.calls = <<triple>> /\ elements' = Append(elements, triple)
                    ELSE c.calls = <<>> /\ elements' = elements
            /\ IF c.op = "construct" THEN rowLim' = c.row /\ colLim' = c.col
               ELSE IF c.op = "setRowLimit" THEN rowLim' = c.row /\ colLim' = colLim
               ELSE IF c.op = "setColLimit" THEN colLim' = c.col /\ rowLim' = rowLim
               ELSE rowLim' = rowLim /\ colLim' = colLim ]_vars

\* assignCheck declined an entry whose row is inside the limit and whose
\* column is not, after the limits were lowered by the setters
C11_Witness ==
    /\ mpc = "called"
    /\ mcall.op = "assignCheck"
    /\ mcall.row < rowLim
    /\ mcall.col >= colLim
    /\ mcall.calls = <<>>
    /\ elements # <<>>

\* C12: while the matrix is not modified, the pass  start (); while
\* (moreData ()) { next (); }  makes exactly size () calls of next, the k-th
\* returning (rowIndex (k), colIndex (k), val (k)); moreData () is false once
\* they are all returned and stays false until start (), which restarts the
\* pass at entry 0 from any point.
C12_IterationProtocol ==
    (~modified) =>
        /\ cur = Len(seen)
        /\ cur <= matrixData_size(elements)
        /\ \A k \in 1 .. Len(seen) :
              seen[k] = matrixElement(matrixData_rowIndex(elements, k - 1),
                                      matrixData_colIndex(elements, k - 1),
                                      matrixData_val(elements, k - 1))
        /\ (mpc = "called" /\ mcall.op = "moreData") =>
              (mcall.ret = (Len(seen) < matrixData_size(elements)))
        /\ (mpc = "called" /\ mcall.op = "start") => (seen = <<>> /\ cur = 0)

\* a pass over two entries is complete and moreData () has answered false
C12_Witness ==
    /\ ~modified
    /\ Len(elements) = 2
    /\ elements[1] # elements[2]
    /\ seen = elements
    /\ mpc = "called"
    /\ mcall.op = "moreData"
    /\ mcall.ret = FALSE

BulkOps == {"merge", "merge_scale", "copyTranslateRow"}
\* the assign calls the bulk copy  c  has to make for the entries  src2  of a2
BulkExpected(c, src2) ==
    CASE c.op = "merge" -> src2
      [] c.op = "merge_scale" ->
            [k \in 1 .. Len(src2) |->
                matrixElement(src2[k].row, src2[k].col, FMul(src2[k].data, c.num))]
      [] c.op = "copyTranslateRow" ->
            LET rows == SelectSeq(src2, LAMBDA e : e.row = c.row)
            IN  [k \in 1 .. Len(rows) |-> matrixElement(c.col, rows[k].col, rows[k].data)]

\* C13: merge (a2) assigns every entry of a2 once, in a2's pass order, with
\* the same row, column and value; merge (a2, scale) does so with the value
\* multiplied by scale; copyTranslateRow (a2, origRow, newRow) assigns
\* (newRow, col, val) for exactly the entries of row origRow.  The stored
\* entries of a2 are left as they were, and nothing of the receiver but its
\* store changes.
C13_BulkCopy ==
    [][ (mpc = "idle" /\ mcall'.op \in BulkOps) =>
           /\ mcall'.calls = BulkExpected(mcall', a2.elements)
           /\ elements' = elements \o BulkExpected(mcall', a2.elements)
           /\ Len(mcall'.calls) <= Len(a2.elements)
           /\ a2'.elements = a2.elements
           /\ rowLim' = rowLim /\ colLim' = colLim /\ cur' = cur ]_vars

\* one row of a two-row matrix was copied to another row
C13_Witness ==
    /\ mpc = "called"
    /\ mcall.op = "copyTranslateRow"
    /\ mcall.row # mcall.col
    /\ mcall.calls # <<>>
    /\ Len(mcall.calls) < Len(a2.elements)
    /\ \A k \in 1 .. Len(mcall.calls) : mcall.calls[k].row = mcall.col

(***************************************************************************)
(* collector: the trigger times of the periodic recorder                   *)
(***************************************************************************)
\* the sum of two raw values: a signed overflow of the base type is undefined,
\* the builds wrap or saturate
RawPlus(S, a, b) ==
    IF is_integral(S)
    THEN IF InBase(a + b) THEN {a + b} ELSE {Wrap(a + b), BaseMin, BaseMax}
    ELSE {FAdd(a, b)}

\* operator+= (rhs): timecode_ += rhs.timecode_
operatorPlusAssign(S, a, rhs) == RawPlus(S, a, rhs)
\* operator+ (other): trep.timecode_ = timecode_ + other.timecode_
operatorPlus(S, a, other) == RawPlus(S, a, other)

\* coreTime and its named values
coreTimes == { [kind |-> "count_time", N |-> 3], [kind |-> "double_time", N |-> 0] }
maxTime(S) == maxVal(S)
negTime(S) == minVal(S)
timeZero(S) == zeroVal(S)

\* the members of a collector that time its samples
Collector(tp, rp, tt, st, sp, lt) ==
    [ timePeriod |-> tp, reqPeriod |-> rp, triggerTime |-> tt,
      startTime |-> st, stopTime |-> sp, lastTriggerTime |-> lt ]

\* collector (time0, period)
collector_collector(S, time0, period) ==
    Collector(period, period, time0, negTime(S), maxTime(S), negTime(S))

\* collector (collectorName): timePeriod (1.0), reqPeriod (1.0), triggerTime (timeZero)
collector_named(S) ==
    { Collector(p, p, timeZero(S), negTime(S), maxTime(S), negTime(S)) :
        p \in timeRepresentation_double(S, FOne) }

\* std::round of a double, as the int it is cast to
std_round(x) == NearestInt(x)

\* set ("period_resolution", val): the new timePeriod
collector_period_resolution(S, self, val) ==
    IF FLess(FZero, val)
    THEN UNION { LET per == std_round(operatorDouble(S, q))
                 IN  IF per = 0 THEN timeRepresentation_double(S, val)
                     ELSE timeRepresentation_double(S, FMul(val, IntToF(per))) :
                 q \in operatorDivDouble(S, self.reqPeriod, val) }
    ELSE {self.timePeriod}

\* a set ("frequency", val) that sets both periods to 1.0 / val
collector_set_frequency_inverts(S, self, val) ==
    { [self EXCEPT !.reqPeriod = v, !.timePeriod = v] :
        v \in timeRepresentation_double(S, FDiv(FOne, val)) }

\* set ("frequency", val): reqPeriod = 1.0 / val; timePeriod = val
collector_set_frequency(S, self, val) ==
    { [self EXCEPT !.reqPeriod = v, !.timePeriod = w] :
        v \in timeRepresentation_double(S, FDiv(FOne, val)),
        w \in timeRepresentation_double(S, val) }

\* set (param, val)
collector_set(S, self, param, val) ==
    CASE param = "period" ->
            { [self EXCEPT !.reqPeriod = v, !.timePeriod = v] :
                v \in timeRepresentation_double(S, val) }
      [] param = "frequency" -> collector_set_frequency(S, self, val)
      [] param \in {"triggertime", "trigger", "time"} ->
            { [self EXCEPT !.triggerTime = v] : v \in timeRepresentation_double(S, val) }
      [] param \in {"starttime", "start"} ->
            { [self EXCEPT !.startTime = v, !.triggerTime = v] :
                v \in timeRepresentation_double(S, val) }
      [] param \in {"stoptime", "stop"} ->
            { [self EXCEPT !.stopTime = v] : v \in timeRepresentation_double(S, val) }
      [] param = "period_resolution" ->
            { [self EXCEPT !.timePeriod = v] :
                v \in collector_period_resolution(S, self, val) }
      [] OTHER -> {self}

\* a setTime (time) that takes every time
collector_setTime_always(S, self, time) == [self EXCEPT !.triggerTime = time]

\* setTime (time): if (time > triggerTime) triggerTime = time
collector_setTime(S, self, time) ==
    IF operatorGt(S, time, self.triggerTime)
    THEN [self EXCEPT !.triggerTime = time]
    ELSE self

\* the iterations after which the loop of trigger is taken not to end
LoopCap == 8

\* while (time >= triggerTime) { triggerTime += timePeriod; ++cnt;
\*     if (cnt > 5) triggerTime = time + timePeriod; }
RECURSIVE trigger_loop(_, _, _, _, _)
trigger_loop(S, time, period, trig, cnt) ==
    IF ~operatorGe(S, time, trig)
    THEN {[triggerTime |-> trig, cnt |-> cnt, done |-> TRUE]}
    ELSE IF cnt >= LoopCap
    THEN {[triggerTime |-> trig, cnt |-> cnt, done |-> FALSE]}
    ELSE UNION { IF cnt + 1 > 5
                 THEN UNION { trigger_loop(S, time, period, t2, cnt + 1) :
                                t2 \in operatorPlus(S, time, period) }
                 ELSE trigger_loop(S, time, period, t1, cnt + 1) :
                 t1 \in operatorPlusAssign(S, trig, period) }

\* trigger (time): the members, the iterations of the loop, and whether it ended
collector_trigger(S, self, time) ==
    { [ self |-> [self EXCEPT
                    !.lastTriggerTime = time,
                    !.triggerTime = IF out.done /\ operatorGt(S, out.triggerTime, self.stopTime)
                                    THEN maxTime(S) ELSE out.triggerTime],
        advanced |-> out.triggerTime,
        cnt |-> out.cnt,
        done |-> out.done ] :
      out \in trigger_loop(S, time, self.timePeriod, self.triggerTime, 0) }

(***************************************************************************)
(* collector: the data points and their columns                            *)
(***************************************************************************)
\* a gridGrabber: vectorGrab, and the number of values grabData (vals) gives
gridGrabber(vectorGrab, width) ==
    [null |-> FALSE, vectorGrab |-> vectorGrab, width |-> width]
\* a shared_ptr that holds no grabber
nullptr == [null |-> TRUE, vectorGrab |-> FALSE, width |-> 0]
\* a shared_ptr to a stateGrabber
stateGrabber == [null |-> FALSE, vectorGrab |-> FALSE, width |-> 1]

\* collectorPoint (dataGrabber, dGrabber, column)
collectorPoint(ggb, sst, column) ==
    [dataGrabber |-> ggb, dGrabber |-> sst, column |-> column]

\* the members of a collector that place its points
Columns(pts, d, cols, rc) ==
    [points |-> pts, data |-> d, columns |-> cols, recheck |-> rc]

\* data.resize (n)
resize(d, n) == [i \in 1 .. n |-> IF i <= Len(d) THEN d[i] ELSE 0]

\* getColumn (requestedColumn)
collector_getColumn(P, requestedColumn) ==
    IF requestedColumn < 0
    THEN IF P.recheck THEN -1 ELSE P.columns
    ELSE requestedColumn

\* an updateColumns that grows only beyond the column count
collector_updateColumns_beyond(P, requestedColumn) ==
    LET cols == IF requestedColumn > P.columns THEN requestedColumn + 1
                ELSE P.columns
    IN  [P EXCEPT !.columns = cols,
                  !.data = IF ~P.recheck THEN resize(P.data, cols) ELSE P.data]

\* updateColumns (requestedColumn)
collector_updateColumns(P, requestedColumn) ==
    LET cols == IF requestedColumn >= P.columns THEN requestedColumn + 1
                ELSE P.columns
    IN  [P EXCEPT !.columns = cols,
                  !.data = IF ~P.recheck THEN resize(P.data, cols) ELSE P.data]

\* points.emplace_back (ggb, sst, newColumn)
emplace_back(P, ggb, sst, newColumn) ==
    [P EXCEPT !.points = Append(P.points, collectorPoint(ggb, sst, newColumn))]

\* an add (ggb, requestedColumn) that never asks for a recheck
collector_add_grid_norecheck(P, ggb, requestedColumn) ==
    LET newColumn == collector_getColumn(P, requestedColumn)
    IN  emplace_back(collector_updateColumns(P, newColumn), ggb, nullptr, newColumn)

\* add (std::shared_ptr<gridGrabber> ggb, int requestedColumn)
collector_add_grid(P, ggb, requestedColumn) ==
    LET newColumn == collector_getColumn(P, requestedColumn)
        Q == IF ggb.vectorGrab THEN [P EXCEPT !.recheck = TRUE] ELSE P
    IN  emplace_back(collector_updateColumns(Q, newColumn), ggb, nullptr, newColumn)

\* add (std::shared_ptr<stateGrabber> sst, int requestedColumn)
collector_add_state(P, sst, requestedColumn) ==
    LET newColumn == collector_getColumn(P, requestedColumn)
    IN  emplace_back(collector_updateColumns(P, newColumn), nullptr, sst, newColumn)

\* add (ggb, sst, requestedColumn)
collector_add_both(P, ggb, sst, requestedColumn) ==
    LET newColumn == collector_getColumn(P, requestedColumn)
    IN  emplace_back(collector_updateColumns(P, newColumn), ggb, sst, newColumn)

\* the loop of recheckColumns over the points from kk on: the points with
\* their columns, the count ct, and whether a null dataGrabber was used
RECURSIVE recheck_loop(_, _, _)
recheck_loop(pts, kk, ct) ==
    IF kk > Len(pts) THEN [points |-> pts, ct |-> ct, null |-> FALSE]
    ELSE LET pt == pts[kk]
             col == IF pt.column = -1 THEN ct ELSE pt.column
             set == [pts EXCEPT ![kk].column = col]
         IN  IF pt.dataGrabber = nullptr
             THEN [points |-> set, ct |-> ct, null |-> TRUE]
             ELSE recheck_loop(set, kk + 1,
                               IF pt.dataGrabber.vectorGrab
                               THEN ct + pt.dataGrabber.width ELSE ct + 1)

\* recheckColumns ()
collector_recheckColumns(P) ==
    LET out == recheck_loop(P.points, 1, 0)
    IN  IF out.null THEN [P |-> [P EXCEPT !.points = out.points], null |-> TRUE]
        ELSE [P |-> [P EXCEPT !.points = out.points,
                              !.data = resize(P.data, out.ct),
                              !.recheck = FALSE],
              null |-> FALSE]

\* one access of the loop of trigger: the grabber used and the write to data
Write(ggb, column, width, size) ==
    [dataGrabber |-> ggb, column |-> column, width |-> width, size |-> size]

\* for (auto &datapoint : points): the accesses up to a null dataGrabber
RECURSIVE grab_loop(_, _, _, _)
grab_loop(pts, kk, size, done) ==
    IF kk > Len(pts) THEN done
    ELSE LET pt == pts[kk]
         IN  IF pt.dataGrabber = nullptr
             THEN Append(done, Write(nullptr, pt.column, 0, size))
             ELSE grab_loop(pts, kk + 1, size,
                      Append(done, Write(pt.dataGrabber, pt.column,
                                         IF pt.dataGrabber.vectorGrab
                                         THEN pt.dataGrabber.width ELSE 1, size)))

\* a write into data that stays inside it
InBounds(w) == 0 <= w.column /\ w.column + w.width <= w.size

\* the first part of trigger: if (recheck) recheckColumns (); the loop over
\* the points.  A null dataGrabber stops the program; after a write outside
\* data it stops or goes on
collector_grab(P) ==
    LET rc == IF P.recheck THEN collector_recheckColumns(P)
              ELSE [P |-> P, null |-> FALSE]
        ws == IF rc.null THEN <<Write(nullptr, 0, 0, Len(P.data))>>
              ELSE grab_loop(rc.P.points, 1, Len(rc.P.data), <<>>)
        null == \E k \in 1 .. Len(ws) : ws[k].dataGrabber = nullptr
        outside == \E k \in 1 .. Len(ws) : ~InBounds(ws[k])
    IN  { [P |-> rc.P, writes |-> ws, stopped |-> st] :
            st \in IF null THEN {TRUE}
                   ELSE IF outside THEN {TRUE, FALSE} ELSE {FALSE} }

(***************************************************************************)
(* The calls on a collector                                                *)
(***************************************************************************)
\* times given as doubles, and the times given as coreTime values
CollectorSeconds == { FZero, FOne, <<5, -1>>, IntToF(7) }
CollectorTimes(S) ==
    UNION { timeRepresentation_double(S, x) : x \in CollectorSeconds } \cup {maxTime(S)}
PeriodInputs == { FOne, <<1, -1>>, IntToF(2) }
ResolutionInputs == { <<1, -1>>, <<3, -2>>, IntToF(2), FZero, <<-1, 0>> }
StopInputs == { IntToF(3) }

CCall(op, param, val, time, cnt, adv) ==
    [op |-> op, param |-> param, val |-> val, time |-> time, cnt |-> cnt, adv |-> adv]

placing == Columns(points, data, columns, recheck)
Places(P) ==
    /\ points' = P.points
    /\ data' = P.data
    /\ columns' = P.columns
    /\ recheck' = P.recheck

self == Collector(timePeriod, reqPeriod, triggerTime, startTime, stopTime,
                  lastTriggerTime)
Becomes(c) ==
    /\ timePeriod' = c.timePeriod
    /\ reqPeriod' = c.reqPeriod
    /\ triggerTime' = c.triggerTime
    /\ startTime' = c.startTime
    /\ stopTime' = c.stopTime
    /\ lastTriggerTime' = c.lastTriggerTime

\* collector c ("name")
CollectorInit ==
    /\ Tconv \in coreTimes
    /\ \E c \in collector_named(Tconv) :
          /\ timePeriod = c.timePeriod
          /\ reqPeriod = c.reqPeriod
          /\ triggerTime = c.triggerTime
          /\ startTime = c.startTime
          /\ stopTime = c.stopTime
          /\ lastTriggerTime = c.lastTriggerTime
    /\ cpc = "idle"
    /\ ccall = CCall("none", "", FZero, timeZero(Tconv), 0, timeZero(Tconv))
    /\ timecode_ = zeroVal(Tconv)
    /\ src = Src("zeroVal", FZero, 0, s)
    /\ pc = "idle"
    /\ call = Call("none", FZero, 0, s, "==", zeroVal(Tconv))
    /\ ret = zeroVal(Tconv)
    /\ NoMatrix
    /\ points = <<>>
    /\ data = <<>>
    /\ columns = 0
    /\ recheck = FALSE
    /\ writes = <<>>

\* c = collector (time0, period)
CConstruct(time0, period) ==
    /\ cpc = "idle"
    /\ Becomes(collector_collector(Tconv, time0, period))
    /\ ccall' = CCall("construct", "", FZero, time0, 0, timeZero(Tconv))
    /\ cpc' = "called"
    /\ Places(Columns(<<>>, <<>>, 0, FALSE))
    /\ writes' = <<>>
    /\ UNCHANGED <<timeVars, matrixVars, iterVars>>

\* c.set (param, val)
CSet(param, val) ==
    /\ cpc = "idle"
    /\ \E c \in collector_set(Tconv, self, param, val) : Becomes(c)
    /\ ccall' = CCall("set", param, val, timeZero(Tconv), 0, timeZero(Tconv))
    /\ cpc' = "called"
    /\ UNCHANGED <<timeVars, matrixVars, pointVars, iterVars>>

\* c.setTime (time)
CSetTime(time) ==
    /\ cpc = "idle"
    /\ Becomes(collector_setTime(Tconv, self, time))
    /\ ccall' = CCall("setTime", "", FZero, time, 0, timeZero(Tconv))
    /\ cpc' = "called"
    /\ UNCHANGED <<timeVars, matrixVars, pointVars, iterVars>>

\* c.trigger (time): it stops at an invalid access, or it returns, or its
\* loop goes on
CTrigger(time) ==
    /\ cpc = "idle"
    /\ \E g \in collector_grab(placing) :
          /\ Places(g.P)
          /\ writes' = g.writes
          /\ IF g.stopped
             THEN /\ cpc' = "stopped"
                  /\ ccall' = CCall("trigger", "", FZero, time, 0, timeZero(Tconv))
                  /\ UNCHANGED <<timePeriod, reqPeriod, triggerTime, startTime,
                                 stopTime, lastTriggerTime>>
             ELSE \E out \in collector_trigger(Tconv, self, time) :
                     /\ Becomes(out.self)
                     /\ ccall' = CCall("trigger", "", FZero, time, out.cnt, out.advanced)
                     /\ cpc' = IF out.done THEN "called" ELSE "looping"
    /\ UNCHANGED <<timeVars, matrixVars, iterVars>>

\* the caller goes on to its next call
CReturn ==
    /\ cpc = "called"
    /\ cpc' = "idle"
    /\ ccall' = CCall("none", "", FZero, timeZero(Tconv), 0, timeZero(Tconv))
    /\ UNCHANGED <<timePeriod, reqPeriod, triggerTime, startTime, stopTime,
                   lastTriggerTime, timeVars, matrixVars, pointVars, iterVars>>

CollectorNext ==
    \/ cpc = "idle" /\ \E time0 \in CollectorTimes(Tconv) :
                          \E period \in timeRepresentation_double(Tconv, FOne) :
                             CConstruct(time0, period)
    \/ \E param \in {"period", "frequency"}, val \in PeriodInputs : CSet(param, val)
    \/ \E val \in ResolutionInputs : CSet("period_resolution", val)
    \/ \E param \in {"stoptime", "starttime", "triggertime"}, val \in StopInputs :
          CSet(param, val)
    \/ cpc = "idle" /\ \E time \in CollectorTimes(Tconv) : CSetTime(time)
    \/ cpc = "idle" /\ \E time \in CollectorTimes(Tconv) : CTrigger(time)
    \/ CReturn

SpecCollector == CollectorInit /\ [][CollectorNext]_vars

(***************************************************************************)
(* The calls that add data points to a collector                           *)
(***************************************************************************)
\* the number of points a collector is given
MaxPoints == 3
\* a scalar grabber and a vector grabber of two values
GrabberInputs == { gridGrabber(FALSE, 1), gridGrabber(TRUE, 2) }
\* requested columns: automatic (-1) and explicit
ColumnInputs == {-1, 0, 2}

CAddCall(kind, ggb, requestedColumn) ==
    [op |-> "add", kind |-> kind, ggb |-> ggb, column |-> requestedColumn]

\* a call that adds a point and gives P
Adds(P, c) ==
    /\ Len(points) < MaxPoints
    /\ Places(P)
    /\ ccall' = c
    /\ cpc' = "called"
    /\ UNCHANGED <<timePeriod, reqPeriod, triggerTime, startTime, stopTime,
                   lastTriggerTime, writes, timeVars, matrixVars, iterVars>>

\* c.add (ggb, requestedColumn)
CAddGrid(ggb, requestedColumn) ==
    /\ cpc = "idle"
    /\ Adds(collector_add_grid(placing, ggb, requestedColumn),
            CAddCall("grid", ggb, requestedColumn))

\* c.add (sst, requestedColumn)
CAddState(requestedColumn) ==
    /\ cpc = "idle"
    /\ Adds(collector_add_state(placing, stateGrabber, requestedColumn),
            CAddCall("state", nullptr, requestedColumn))

\* c.add (ggb, sst, requestedColumn)
CAddBoth(ggb, requestedColumn) ==
    /\ cpc = "idle"
    /\ Adds(collector_add_both(placing, ggb, stateGrabber, requestedColumn),
            CAddCall("both", ggb, requestedColumn))

PointsNext ==
    \/ \E ggb \in GrabberInputs, col \in ColumnInputs : CAddGrid(ggb, col)
    \/ \E col \in ColumnInputs : CAddState(col)
    \/ \E ggb \in GrabberInputs, col \in ColumnInputs : CAddBoth(ggb, col)
    \/ cpc = "idle" /\ \E time \in timeRepresentation_double(Tconv, FOne) : CTrigger(time)
    \/ CReturn

SpecPoints == CollectorInit /\ [][PointsNext]_vars

(***************************************************************************)
(* Properties of the collector                                             *)
(***************************************************************************)
\* C14: at the end of trigger (time), an advanced next trigger time beyond
\* stopTime is replaced by maxTime; and once triggerTime is maxTime, every
\* trigger (t) and setTime (t) with t < maxTime leaves it at maxTime
C14_NeverAgain ==
    [][ (cpc = "idle" /\ ccall'.op \in {"trigger", "setTime"}) =>
        /\ (ccall'.op = "trigger" /\ cpc' = "called") =>
              triggerTime' = IF operatorGt(Tconv, ccall'.adv, stopTime)
                             THEN maxTime(Tconv) ELSE ccall'.adv
        /\ (triggerTime = maxTime(Tconv)
              /\ operatorLt(Tconv, ccall'.time, maxTime(Tconv))) =>
              (triggerTime' = maxTime(Tconv) /\ cpc' = "called") ]_vars

\* a trigger advanced the trigger time beyond stopTime and parked it at maxTime
C14_Witness ==
    /\ cpc = "called"
    /\ ccall.op = "trigger"
    /\ ccall.cnt > 0
    /\ ccall.adv # maxTime(Tconv)
    /\ operatorGt(Tconv, ccall.adv, stopTime)
    /\ triggerTime = maxTime(Tconv)

\* the trigger time  k  periods after  trig  (no sum leaves the base type)
RECURSIVE Advanced(_, _, _, _)
Advanced(S, trig, period, k) ==
    IF k = 0 THEN trig
    ELSE LET prev == Advanced(S, trig, period, k - 1)
         IN  IF is_integral(S) THEN prev + period ELSE FAdd(prev, period)

\* the next trigger time that trigger (time) has to leave
NextTrigger(S, c, time) ==
    LET ks == { k \in 0 .. 5 :
                  operatorGt(S, Advanced(S, c.triggerTime, c.timePeriod, k), time) }
        least == CHOOSE k \in ks : \A j \in ks : k <= j
        next == IF ks # {} THEN Advanced(S, c.triggerTime, c.timePeriod, least)
                ELSE Advanced(S, time, c.timePeriod, 1)
    IN  IF operatorGt(S, next, c.stopTime) THEN maxTime(S) ELSE next

\* C19: with timePeriod > 0, trigger (time) returns after at most 6 iterations
\* of its loop with lastTriggerTime == time and triggerTime > time: the old
\* triggerTime if it is after time, else the old triggerTime advanced by the
\* least k <= 5 periods that passes time, else time + timePeriod; and maxTime
\* when that is beyond stopTime
C19_TriggerTerminates ==
    [][ (/\ cpc = "idle" /\ ccall'.op = "trigger"
         /\ operatorGt(Tconv, timePeriod, timeZero(Tconv))) =>
        /\ cpc' = "called"
        /\ ccall'.cnt <= 6
        /\ lastTriggerTime' = ccall'.time
        /\ operatorGt(Tconv, triggerTime', ccall'.time)
        /\ triggerTime' = NextTrigger(Tconv, self, ccall'.time) ]_vars

\* C20: after set ("period", p) reqPeriod and timePeriod are p; after
\* set ("frequency", f) both are 1 / f; after set ("period_resolution", r)
\* with r > 0 timePeriod is r * max (1, round (reqPeriod / r)), and with
\* r <= 0 nothing changes
C20_PeriodSettings ==
    [][ (cpc = "idle" /\ ccall'.op = "set") =>
        LET val == ccall'.val
            param == ccall'.param
        IN  /\ (param = "period") =>
                  /\ reqPeriod' \in timeRepresentation_double(Tconv, val)
                  /\ timePeriod' = reqPeriod'
            /\ (param = "frequency") =>
                  /\ reqPeriod' \in timeRepresentation_double(Tconv, FDiv(FOne, val))
                  /\ timePeriod' = reqPeriod'
            /\ (param = "period_resolution") =>
                  /\ reqPeriod' = reqPeriod
                  /\ IF FLess(FZero, val)
                     THEN LET n == NearestInt(FDiv(operatorDouble(Tconv, reqPeriod), val))
                          IN  timePeriod' \in timeRepresentation_double(Tconv,
                                  FMul(val, IntToF(IF n < 1 THEN 1 ELSE n)))
                     ELSE timePeriod' = timePeriod ]_vars

(***************************************************************************)
(* Properties of the data points                                           *)
(***************************************************************************)
\* C21: in trigger every point visited has a dataGrabber that is not null, and
\* every write into data is in bounds: 0 <= column and column + width <=
\* data.size (), the width being 1 for a scalar grabber and the length of the
\* grabbed vector for a vector grabber, also after recheckColumns
C21_ValidAccesses ==
    \A k \in 1 .. Len(writes) :
        /\ ~writes[k].dataGrabber.null
        /\ InBounds(writes[k])

\* no add (ggb, column) was given a vector grabber: recheck was never set
NoVectorAdded(pts) ==
    \A k \in 1 .. Len(pts) :
        ~(pts[k].dGrabber.null /\ pts[k].dataGrabber.vectorGrab)

MaxObjects == 3
Objects == 1 .. MaxObjects
\* iteratorActual == nullptr
NullActual == 0

\* a matrixIteratorActual object: currentElement, and whether it was deleted
matrixIteratorActual(live, currentElement) ==
    [live |-> live, currentElement |-> currentElement]

\* new matrixIteratorActual<X> (matrixData, start): the object and its address
Allocated(h, start) ==
    LET p == CHOOSE q \in Objects : ~h[q].live /\ \A r \in Objects : ~h[r].live => q <= r
    IN  [heap |-> [h EXCEPT ![p] = matrixIteratorActual(TRUE, start)], ptr |-> p]
CanAllocate(h) == \E q \in Objects : ~h[q].live

\* the results of a member call on a matrixIteratorActual: the free store,
\* the pointer returned, the invalid access made, and whether the program stops
Outcome(h, p, f, stopped) == [heap |-> h, ptr |-> p, fault |-> f, stopped |-> stopped]

\* clone (): new matrixIteratorActual (mD, currentElement).  On a deleted object
\* the call reads freed memory: the program stops or a cursor at any position
\* comes back
matrixIteratorActual_clone(h, p) ==
    IF h[p].live
    THEN LET a == Allocated(h, h[p].currentElement)
         IN  {Outcome(a.heap, a.ptr, "none", FALSE)}
    ELSE {Outcome(h, NullActual, "use after delete", TRUE)}
         \cup { LET a == Allocated(h, c)
                IN  Outcome(a.heap, a.ptr, "use after delete", FALSE) :
                c \in 0 .. IndexMax }

\* delete iteratorActual
Deleted(h, p) == [h EXCEPT ![p].live = FALSE]

\* increment (): ++currentElement
matrixIteratorActual_increment(h, p) ==
    [h EXCEPT ![p].currentElement = (h[p].currentElement + 1) % pow2(IndexBits)]

\* isEqual (it2): currentElement == it2->currentElement
matrixIteratorActual_isEqual(h, p, it2) == h[p].currentElement = h[it2].currentElement

\* matrixIterator (matrixData, start)
matrixIterator_new(h, start) ==
    LET a == Allocated(h, start) IN Outcome(a.heap, a.ptr, "none", FALSE)

\* matrixIterator (const matrixIterator &mI): iteratorActual (mI.iteratorActual->clone ())
matrixIterator_copy(h, mI) == matrixIteratorActual_clone(h, mI)

\* operator= (const matrixIterator &mI):
\*   if (iteratorActual) delete iteratorActual;
\*   iteratorActual = mI.iteratorActual->clone ();
matrixIterator_assign(h, iteratorActual, mI) ==
    LET h1 == IF iteratorActual # NullActual THEN Deleted(h, iteratorActual) ELSE h
    IN  matrixIteratorActual_clone(h1, mI)

\* operator= (matrixIterator &&mI): the free store after the delete
matrixIterator_move_assign(h, iteratorActual) ==
    IF iteratorActual # NullActual THEN Deleted(h, iteratorActual) ELSE h

\* ~matrixIterator (): if (iteratorActual) delete iteratorActual;
matrixIterator_destroy(h, iteratorActual) ==
    IF iteratorActual # NullActual THEN Deleted(h, iteratorActual) ELSE h

(***************************************************************************)
(* The calls on the iterators of a matrixData object                       *)
(***************************************************************************)
\* two iterator variables and the value a post-increment returns
Slots == {"it", "it2", "retval"}
Iterator(exists, iteratorActual) ==
    [exists |-> exists, iteratorActual |-> iteratorActual]
ICall(op, x, y, old, r) == [op |-> op, x |-> x, y |-> y, old |-> old, ret |-> r]

\* the iterator x exists and was not moved from
Usable(x) == its[x].exists /\ its[x].iteratorActual # NullActual
\* the position of the usable iterator x
Position(x) == heap[its[x].iteratorActual].currentElement

IteratorInit ==
    /\ its = [x \in Slots |-> Iterator(FALSE, NullActual)]
    /\ heap = [q \in Objects |-> matrixIteratorActual(FALSE, 0)]
    /\ ipc = "idle"
    /\ icall = ICall("none", "it", "it", 0, FALSE)
    /\ fault = "none"
    /\ rowLim = IndexMax
    /\ colLim = IndexMax
    /\ cur = 0
    /\ elements \in A2Inputs
    /\ a2 = [elements |-> <<>>, cur |-> 0]
    /\ mpc = "idle"
    /\ mcall = MCall("none", 0, 0, FZero, <<>>, FALSE)
    /\ seen = <<>>
    /\ modified = FALSE
    /\ Tconv = [kind |-> "double_time", N |-> 0]
    /\ timecode_ = FZero
    /\ src = Src("zeroVal", FZero, 0, s)
    /\ pc = "idle"
    /\ call = Call("none", FZero, 0, s, "==", FZero)
    /\ ret = FZero
    /\ NoCollector

\* a call that leaves the iterator x with the outcome out
Leaves(x, out, c) ==
    /\ heap' = out.heap
    /\ its' = [its EXCEPT ![x] = Iterator(TRUE, out.ptr)]
    /\ fault' = IF out.fault # "none" THEN out.fault ELSE fault
    /\ ipc' = IF out.stopped THEN "stopped" ELSE "called"
    /\ icall' = c
    /\ UNCHANGED <<timeVars, matrixVars, collectorVars, pointVars>>

\* matrixIterator x = m.begin ()  and  x = m.end ()
IBegin(x) ==
    /\ ipc = "idle"
    /\ ~its[x].exists
    /\ CanAllocate(heap)
    /\ Leaves(x, matrixIterator_new(heap, 0), ICall("begin", x, x, 0, FALSE))
IEnd(x) ==
    /\ ipc = "idle"
    /\ ~its[x].exists
    /\ CanAllocate(heap)
    /\ Leaves(x, matrixIterator_new(heap, matrixData_size(elements)),
              ICall("end", x, x, 0, FALSE))

\* matrixIterator x (y)
ICopy(x, y) ==
    /\ ipc = "idle"
    /\ ~its[x].exists
    /\ Usable(y)
    /\ CanAllocate(heap)
    /\ \E out \in matrixIterator_copy(heap, its[y].iteratorActual) :
          Leaves(x, out, ICall("copy", x, y, Position(y), FALSE))

\* x = y, also for x and y the same iterator
IAssign(x, y) ==
    /\ ipc = "idle"
    /\ its[x].exists
    /\ Usable(y)
    /\ its[x].iteratorActual # NullActual \/ CanAllocate(heap)
    /\ \E out \in matrixIterator_assign(heap, its[x].iteratorActual,
                                        its[y].iteratorActual) :
          Leaves(x, out, ICall("assign", x, y, Position(y), FALSE))

\* x = std::move (y), for two iterators
IMoveAssign(x, y) ==
    /\ ipc = "idle"
    /\ x # y
    /\ its[x].exists
    /\ Usable(y)
    /\ heap' = matrixIterator_move_assign(heap, its[x].iteratorActual)
    /\ its' = [its EXCEPT ![x] = Iterator(TRUE, its[y].iteratorActual),
                          ![y] = Iterator(TRUE, NullActual)]
    /\ ipc' = "called"
    /\ icall' = ICall("move", x, y, Position(y), FALSE)
    /\ UNCHANGED <<fault, timeVars, matrixVars, collectorVars, pointVars>>

\* ++x, inside  for (x = m.begin (); x != m.end (); ++x)
IIncrement(x) ==
    /\ ipc = "idle"
    /\ Usable(x)
    /\ Position(x) # matrixData_size(elements)
    /\ heap' = matrixIteratorActual_increment(heap, its[x].iteratorActual)
    /\ ipc' = "called"
    /\ icall' = ICall("++", x, x, Position(x), FALSE)
    /\ UNCHANGED <<its, fault, timeVars, matrixVars, collectorVars, pointVars>>

\* x++: matrixIterator retval = *this; ++(*this); return retval;
IPostIncrement(x) ==
    /\ ipc = "idle"
    /\ x # "retval"
    /\ Usable(x)
    /\ ~its["retval"].exists
    /\ Position(x) # matrixData_size(elements)
    /\ CanAllocate(heap)
    /\ \E out \in matrixIterator_copy(heap, its[x].iteratorActual) :
          Leaves("retval",
                 [out EXCEPT !.heap = matrixIteratorActual_increment(
                                          out.heap, its[x].iteratorActual)],
                 ICall("x++", x, "retval", Position(x), FALSE))

\* x == y
IEqual(x, y) ==
    /\ ipc = "idle"
    /\ Usable(x)
    /\ Usable(y)
    /\ icall' = ICall("==", x, y, Position(x),
                      matrixIteratorActual_isEqual(heap, its[x].iteratorActual,
                                                   its[y].iteratorActual))
    /\ ipc' = "called"
    /\ UNCHANGED <<its, heap, fault, timeVars, matrixVars, collectorVars, pointVars>>

\* the iterator x goes out of scope
IDestroy(x) ==
    /\ ipc = "idle"
    /\ its[x].exists
    /\ heap' = matrixIterator_destroy(heap, its[x].iteratorActual)
    /\ its' = [its EXCEPT ![x] = Iterator(FALSE, NullActual)]
    /\ ipc' = "called"
    /\ icall' = ICall("destroy", x, x, 0, FALSE)
    /\ UNCHANGED <<fault, timeVars, matrixVars, collectorVars, pointVars>>

\* the caller goes on to its next call
IReturn ==
    /\ ipc = "called"
    /\ ipc' = "idle"
    /\ icall' = ICall("none", "it", "it", 0, FALSE)
    /\ UNCHANGED <<its, heap, fault, timeVars, matrixVars, collectorVars, pointVars>>

IteratorNext ==
    \/ \E x \in Slots \ {"retval"} : IBegin(x)
    \/ \E x \in Slots \ {"retval"} : IEnd(x)
    \/ \E x \in Slots \ {"retval"}, y \in Slots : ICopy(x, y)
    \/ \E x \in Slots \ {"retval"}, y \in Slots : IAssign(x, y)
    \/ \E x \in Slots \ {"retval"}, y \in Slots : IMoveAssign(x, y)
    \/ \E x \in Slots : IIncrement(x)
    \/ \E x \in Slots : IPostIncrement(x)
    \/ \E x \in Slots, y \in Slots : IEqual(x, y)
    \/ \E x \in Slots : IDestroy(x)
    \/ IReturn

SpecIterator == IteratorInit /\ [][IteratorNext]_vars

(***************************************************************************)
(* Claims about matrixIterator                                             *)
(***************************************************************************)
\* every live cursor object is owned by exactly one iterator, and every
\* iterator that was not moved from owns a live cursor object
OwnedOnce(I, h) ==
    /\ \A x \in Slots : I[x].exists /\ I[x].iteratorActual # NullActual
                            => h[I[x].iteratorActual].live
    /\ \A q \in Objects : h[q].live =>
          \E x \in Slots : /\ I[x].exists /\ I[x].iteratorActual = q
                           /\ \A y \in Slots \ {x} :
                                 ~(I[y].exists /\ I[y].iteratorActual = q)

\* the position of the iterator x in the iterators I over the free store h
PositionIn(I, h, x) == h[I[x].iteratorActual].currentElement

\* the iterators other than those in S are where they were
OthersUnmoved(S) ==
    \A z \in Slots \ S : /\ its'[z] = its[z]
                         /\ Usable(z) => PositionIn(its', heap', z) = Position(z)

\* what the call of an iterator operation has to leave behind
OwningHandle ==
    LET c == icall'
    IN  /\ fault' = "none"
        /\ ipc' # "stopped"
        /\ OwnedOnce(its', heap')
        /\ c.op = "begin" => PositionIn(its', heap', c.x) = 0
        /\ c.op = "end" => PositionIn(its', heap', c.x) = matrixData_size(elements)
        /\ c.op \in {"copy", "assign"} =>
              /\ its'[c.x].exists /\ its'[c.x].iteratorActual # NullActual
              /\ PositionIn(its', heap', c.x) = c.old
              /\ its'[c.y].exists /\ its'[c.y].iteratorActual # NullActual
              /\ PositionIn(its', heap', c.y) = c.old
              /\ OthersUnmoved({c.x})
        /\ c.op = "++" =>
              /\ PositionIn(its', heap', c.x) = c.old + 1
              /\ OthersUnmoved({c.x})
        /\ c.op = "x++" =>
              /\ PositionIn(its', heap', c.x) = c.old + 1
              /\ its'["retval"].exists /\ its'["retval"].iteratorActual # NullActual
              /\ its'["retval"].iteratorActual # its'[c.x].iteratorActual
              /\ PositionIn(its', heap', "retval") = c.old
              /\ OthersUnmoved({c.x, "retval"})
        /\ c.op = "==" =>
              /\ c.ret = (Position(c.x) = Position(c.y))
              /\ OthersUnmoved({})

\* C23: matrixIterator is an independent owning handle.  After a copy
\* construction or a copy assignment, x = x included, the target owns a live
\* cursor at the position of the source and the source is unchanged; ++ moves
\* only the iterator it is applied to; x++ returns an iterator at the old
\* position; every cursor object is owned by one iterator, so that it is
\* deleted once, and no call on iterators that were not moved from uses a
\* deleted or null cursor; begin () is at 0, end () at size () and ++ adds 1.
C23_OwningHandle == [][ipc = "idle" /\ ipc' # "idle" => OwningHandle]_vars

\* the same, for every call but the assignment of an iterator to itself, as
\* long as no such assignment has used a deleted cursor
C23_NoSelfAssign ==
    [][(/\ ipc = "idle" /\ ipc' # "idle" /\ fault = "none"
        /\ ~(icall'.op = "assign" /\ icall'.x = icall'.y)) => OwningHandle]_vars
====
